---- MODULE Spec2Model ----
(***************************************************************************)
(* Run orchestration and event streaming of the QA analysis backend:       *)
(* RunManager (backend/app/runner.py) driving Notebook24Adapter.run_agents *)
(* (backend/app/notebook24_adapter.py) over the AGENTS table               *)
(* (backend/app/models.py).                                                *)
(*                                                                         *)
(* start_run and event_stream execute on the event-loop thread; every run  *)
(* has its own worker thread (threading.Thread in start_run).  Worker      *)
(* steps and event-loop steps interleave freely; the code of one           *)
(* event_stream generator between two yields is atomic with respect to the *)
(* other generators only.                                                  *)
(***************************************************************************)
EXTENDS Integers, Sequences, FiniteSets, TLC

VARIABLES
    run_objs,        \* heap of Run objects (models.Run): object id -> Run
    active_runs,     \* RunManager.active_runs: run id -> Run object id
    completed_runs,  \* RunManager.completed_runs: run id -> Run object id
    run_tasks,       \* RunManager.run_tasks: run id -> task (never written)
    event_queues,    \* RunManager.event_queues: run id -> queue object id
    queue_objs,      \* heap of queue.Queue objects: object id -> contents
    threads,         \* worker threads spawned by start_run: object id -> frame
    subs,            \* event_stream generators (subscriptions)
    published,       \* log: run id -> events put on a queue of that run, in order
    start_calls,     \* log: run id -> number of start_run calls
    clocked,         \* log: whether the connected events record their time
    cancel_result,   \* log: the last value returned by cancel_run
    cancel_seen,     \* log: run id -> status cancel_run last found the run in
    got,             \* log: what the last get_run call returned
    \* agent_service.py
    code,            \* the source text handed to the analyzer
    filename,        \* its file name
    wall_clock,      \* what datetime.now() returns
    analyses,        \* log: the results of the analyze_code calls, in order
    service_runs,    \* agent_service.active_runs: run id -> workflow state
    workflow_pc,     \* process_workflow tasks: run id -> next agent, or "done"
    broadcasts,      \* log: run id -> messages given to broadcast_to_run
    given,           \* the argument handed to a generator or to the scorer
    generated,       \* log: name of an output -> what the last call returned
    run_connections, \* ConnectionManager.run_connections: run id -> websockets
    websockets,      \* websocket_endpoint handlers: websocket -> run, position
    coroutines,      \* broadcast_to_run coroutines, in the order of their creation
    sent             \* log: websocket -> messages send_text was called with

\* The WebSocket side of agent_service.py.
sockets == <<run_connections, websockets, coroutines, sent>>

\* The state of agent_service.py.
service == <<code, filename, wall_clock, analyses, service_runs, workflow_pc,
             broadcasts, given, generated, sockets>>

\* The state of backend/app/runner.py.
runner == <<run_objs, active_runs, completed_runs, run_tasks, event_queues,
            queue_objs, threads, subs, published, start_calls, clocked,
            cancel_result, cancel_seen, got>>

vars == <<runner, service>>

----------------------------------------------------------------------------
\* Bounds of the model.

\* Run ids the callers may use.
RunIds == {"r1", "r2"}

\* Subscription slots (one event_stream call each).
Subs == {"s1", "s2"}

\* WebSocket clients.
Sockets == {"w1", "w2"}

\* Turns of the loop of process_workflow followed while clients are connected.
StagesWatched == 1

\* Heartbeats one subscription may yield (queue.Empty timeouts).
MaxHeartbeats == 1

\* start_run calls per run id when callers reuse an id.
Starts == {1, 2}

\* analyze_code calls on one text.
MaxCalls == 2

\* Ticks of the wall clock.
MaxClock == 1

\* Calls in a text given to the URL extraction.
MaxUrlCalls == 2

\* Calls on one line of a text given to the step parser.
MaxLineCalls == 3

----------------------------------------------------------------------------
\* Program constants.

AGENTS == <<"code_analysis", "user_story", "gherkin", "test_plan",
            "playwright", "execution", "coverage", "final_report">>

AgentKeys == {AGENTS[i] : i \in 1..Len(AGENTS)}

\* StartRunRequest.use_notebook
Notebooks == {18, 24}

----------------------------------------------------------------------------
\* Objects are named by the start_run call that created them: <<r, k>> is the
\* Run, the queue.Queue and the thread of the k-th start_run(r).
ObjIds == RunIds \X Starts

NoObj == <<"none", 0>>

\* Dictionaries (Python dict): functions with a growing and shrinking domain.

EmptyDict == <<>>

DictPut(d, k, v) == [x \in (DOMAIN d) \cup {k} |-> IF x = k THEN v ELSE d[x]]

DictDel(d, k) == [x \in (DOMAIN d) \ {k} |-> d[x]]

\* A put that jumps the queue.
QueuePutFront(q, e) == <<e>> \o q

\* queue.Queue.put: the queue is unbounded, put never raises queue.Full.
QueuePut(q, e) == Append(q, e)

\* queue.Queue.get on a non-empty queue: the oldest element.
QueueHead(q) == Head(q)

\* A get that empties the queue.
QueueRestNone(q) == <<>>

\* What queue.Queue.get leaves on the queue.
QueueRest(q) == Tail(q)

----------------------------------------------------------------------------
\* The Run object start_run creates.

InitializeAgents == [k \in AgentKeys |-> "idle"]

NewRun == [status    |-> "queued",
           agents    |-> InitializeAgents,
           artifacts |-> {},
           errors    |-> <<>>,
           coverage  |-> "none"]

\* Heap slots of objects not created yet.
NoRun == [NewRun EXCEPT !.status = "unallocated"]

NoThread == [run |-> "none", nb |-> 0, pc |-> "unborn", i |-> 0,
             err |-> "none", popped |-> NoObj]

\* No get_run call has returned yet.
NotCalled == [run |-> "none", ref |-> NoObj]

\* agent_service.py before any request.
\* No client has connected and nothing was broadcast.
SocketsIdle ==
    /\ run_connections = <<>>
    /\ websockets = [w \in Sockets |-> [run |-> "none", pc |-> "new"]]
    /\ coroutines = <<>>
    /\ sent = [w \in Sockets |-> <<>>]

ServiceIdle ==
    /\ code = <<>>
    /\ filename = "test.js"
    /\ wall_clock = 0
    /\ analyses = <<>>
    /\ service_runs = <<>>
    /\ workflow_pc = <<>>
    /\ broadcasts = <<>>
    /\ given = <<>>
    /\ generated = <<>>
    /\ SocketsIdle

InitRunner(clock) ==
    /\ run_objs = [o \in ObjIds |-> NoRun]
    /\ active_runs = EmptyDict
    /\ completed_runs = EmptyDict
    /\ run_tasks = EmptyDict
    /\ event_queues = EmptyDict
    /\ queue_objs = [o \in ObjIds |-> <<>>]
    /\ threads = [o \in ObjIds |-> NoThread]
    /\ subs = [s \in Subs |-> [pc |-> "closed", run |-> "none", q |-> NoObj,
                               delivered |-> <<>>, beats |-> 0]]
    /\ published = [r \in RunIds |-> <<>>]
    /\ start_calls = [r \in RunIds |-> 0]
    /\ cancel_result = "none"
    /\ cancel_seen = [r \in RunIds |-> "none"]
    /\ got = NotCalled
    /\ clocked = clock

InitWith(clock) == InitRunner(clock) /\ ServiceIdle

Init == InitWith(FALSE)

InitClocked == InitWith(TRUE)

----------------------------------------------------------------------------
\* Events.  seq of an event of the run is its position in the log of the run
\* (the identity of the dict put on the queue).  In a clocked behaviour seq of
\* a connected event is the time of the subscription, counted in events
\* published for the run so far.

Event(type, agent, state, artifact, coverage, error) ==
    [type |-> type, agent |-> agent, state |-> state, artifact |-> artifact,
     coverage |-> coverage, error |-> error, runId |-> "none", seq |-> 0]

StatusUpdate == Event("status_update", "none", "running", FALSE, "none", "none")

\* {"type": "agent_update", "data": event}: the whole run_agents event is
\* the payload, its artifact and coverage included.
AgentUpdate(agent, state, artifact, coverage) ==
    Event("agent_update", agent, state, artifact, coverage, "none")

RunComplete(r) ==
    [Event("run_complete", "none", "completed", FALSE, "none", "none")
        EXCEPT !.runId = r]

RunError(error) == Event("run_error", "none", "failed", FALSE, "none", error)

StreamEnd == Event("stream_end", "none", "none", FALSE, "none", "none")

\* A put on the queue of every run.
PutOnEveryQueue(r, q, ev) ==
    LET e == [ev EXCEPT !.seq = Len(published[r]) + 1]
    IN  /\ queue_objs' =
               [o \in ObjIds |->
                   IF \E x \in DOMAIN event_queues : event_queues[x] = o
                   THEN QueuePut(queue_objs[o], e)
                   ELSE queue_objs[o]]
        /\ published' = [published EXCEPT ![r] = Append(@, e)]

\* The put of _add_event_to_queue on queue object q of run r.
PutOnQueue(r, q, ev) ==
    LET e == [ev EXCEPT !.seq = Len(published[r]) + 1]
    IN  /\ queue_objs' = [queue_objs EXCEPT ![q] = QueuePut(@, e)]
        /\ published' = [published EXCEPT ![r] = Append(@, e)]

\* A put on a queue of one place, which waits until the place is free.
add_event_to_queue_waiting(r, ev) ==
    IF r \in DOMAIN event_queues
    THEN /\ queue_objs[event_queues[r]] = <<>>
         /\ PutOnQueue(r, event_queues[r], ev)
    ELSE UNCHANGED <<queue_objs, published>>

\* RunManager._add_event_to_queue: silently nothing when the run has no queue.
add_event_to_queue(r, ev) ==
    IF r \in DOMAIN event_queues
    THEN PutOnQueue(r, event_queues[r], ev)
    ELSE UNCHANGED <<queue_objs, published>>

\* A _process_agent_event that keeps the newest artifact only.
process_agent_event_newest(r, event) ==
    IF r \notin DOMAIN active_runs
    THEN run_objs
    ELSE LET oid == active_runs[r]
             run == run_objs[oid]
             a1  == IF event.agent \in AgentKeys
                    THEN [run EXCEPT !.agents[event.agent] = event.state]
                    ELSE run
             a2  == IF event.coverage # "none"
                    THEN [a1 EXCEPT !.coverage = event.coverage]
                    ELSE a1
             a3  == IF event.artifact
                    THEN [a2 EXCEPT !.artifacts = {event.agent}]
                    ELSE a2
         IN  [run_objs EXCEPT ![oid] = a3]

\* RunManager._process_agent_event: the heap after the event was applied.
process_agent_event(r, event) ==
    IF r \notin DOMAIN active_runs
    THEN run_objs
    ELSE LET oid == active_runs[r]
             run == run_objs[oid]
             a1  == IF event.agent \in AgentKeys
                    THEN [run EXCEPT !.agents[event.agent] = event.state]
                    ELSE run
             a2  == IF event.coverage # "none"
                    THEN [a1 EXCEPT !.coverage = event.coverage]
                    ELSE a1
             a3  == IF event.artifact
                    THEN [a2 EXCEPT !.artifacts = @ \cup {event.agent}]
                    ELSE a2
         IN  [run_objs EXCEPT ![oid] = a3]

\* The status written by the three writers of Run.status in the worker.
StatusRunning == "running"

StatusCompleted == "completed"

StatusFailed == "failed"

SetStatus(r, status) ==
    [run_objs EXCEPT ![active_runs[r]].status = status]

----------------------------------------------------------------------------
\* RunManager.start_run, called on the event-loop thread.

\* No generator is between its break and its end: the event-loop thread is
\* free to run another coroutine or request handler.
EventLoopFree == \A s \in Subs : subs[s].pc \notin {"cleanup", "cleanup_del"}

Registered(r) == r \in (DOMAIN active_runs) \cup (DOMAIN completed_runs)

start_run(r, nb) ==
    LET o == <<r, start_calls[r] + 1>> IN
    /\ EventLoopFree
    /\ run_objs' = [run_objs EXCEPT ![o] = NewRun]
    /\ active_runs' = DictPut(active_runs, r, o)
    /\ queue_objs' = [queue_objs EXCEPT ![o] = <<>>]
    /\ event_queues' = DictPut(event_queues, r, o)
    /\ start_calls' = [start_calls EXCEPT ![r] = @ + 1]
    /\ \/ \* create_run_directory succeeds, the worker thread is started
          threads' = [threads EXCEPT ![o] =
                         [run |-> r, nb |-> nb, pc |-> "begin", i |-> 0,
                          err |-> "none", popped |-> NoObj]]
       \/ \* create_run_directory raises (mkdir): no thread is started
          UNCHANGED threads
    /\ UNCHANGED <<completed_runs, run_tasks, subs, published, clocked,
                   cancel_result,
                   cancel_seen, got, service>>

----------------------------------------------------------------------------
\* The worker thread: run_in_background -> _execute_run_sync.

At(t, pc) == threads[t].pc = pc

Goto(t, pc) == [threads EXCEPT ![t].pc = pc]

Raise(t, error) == [threads EXCEPT ![t].pc = "except", ![t].err = error]

\* Lines 82-91: mark the run running, publish status_update.
execute_begin(t) ==
    LET r == threads[t].run IN
    /\ At(t, "begin")
    /\ IF r \in DOMAIN active_runs
       THEN /\ run_objs' = SetStatus(r, StatusRunning)
            /\ add_event_to_queue(r, StatusUpdate)
       ELSE UNCHANGED <<run_objs, queue_objs, published>>
    /\ threads' = Goto(t, "gen_start")
    /\ UNCHANGED <<active_runs, completed_runs, run_tasks, event_queues, subs,
                   start_calls, clocked,
                   cancel_result,
                   cancel_seen, got, service>>

\* One turn of the for loop of lines 94-102 for the event the generator
\* yields: _process_agent_event, then _add_event_to_queue.
LoopTurn(t, event, next) ==
    LET r == threads[t].run IN
    /\ run_objs' = process_agent_event(r, event)
    /\ add_event_to_queue(r, event)
    /\ threads' = next
    /\ UNCHANGED <<active_runs, completed_runs, run_tasks, event_queues, subs,
                   start_calls, clocked,
                   cancel_result,
                   cancel_seen, got, service>>

Raised(t, error) ==
    /\ threads' = Raise(t, error)
    /\ UNCHANGED <<run_objs, active_runs, completed_runs, run_tasks,
                   event_queues, queue_objs, subs, published, start_calls, clocked,
                   cancel_result,
                   cancel_seen, got, service>>

StageRunning(i) == AgentUpdate(AGENTS[i], "running", FALSE, "none")

\* A success event that leaves the agent running.
StageStaysRunning(i) == AgentUpdate(AGENTS[i], "running", TRUE, "none")

StageSuccess(i) == AgentUpdate(AGENTS[i], "success", TRUE, "none")

\* A loop that steps over a stage.
SkipStage(i) == i + 2

\* The stage run_agents turns to after stage i.
NextStage(i) == i + 1

\* run_agents, lines 48-50: artifacts_path.mkdir raises.
run_agents_mkdir_raises(t) ==
    /\ At(t, "gen_start")
    /\ Raised(t, "mkdir")

\* run_agents up to its first yield (lines 45-60, 88-98).
run_agents_start(t) ==
    /\ At(t, "gen_start")
    /\ \/ /\ threads[t].nb = 24
          /\ LoopTurn(t, AgentUpdate("notebook", "running", FALSE, "none"),
                      Goto(t, "notebook"))
       \/ /\ threads[t].nb # 24
          /\ LoopTurn(t, StageRunning(1),
                      [threads EXCEPT ![t].pc = "stage_body", ![t].i = 1])

\* run_agents, lines 61-85: the notebook is executed or skipped.
run_agents_notebook(t) ==
    /\ At(t, "notebook")
    /\ \/ LoopTurn(t, AgentUpdate("notebook", "success", TRUE, "none"),
                   [threads EXCEPT ![t].pc = "stage_run", ![t].i = 1])
       \/ LoopTurn(t, AgentUpdate("notebook", "warn", FALSE, "none"),
                   [threads EXCEPT ![t].pc = "stage_run", ![t].i = 1])

\* run_agents, lines 88-98: the running event of stage i.
run_agents_stage_running(t) ==
    /\ At(t, "stage_run")
    /\ LoopTurn(t, StageRunning(threads[t].i), Goto(t, "stage_body"))

\* run_agents, lines 100-118: the stage's artifact is generated and written,
\* then the success event is yielded; the write may raise.
run_agents_stage_body(t) ==
    LET i == threads[t].i IN
    /\ At(t, "stage_body")
    /\ \/ Raised(t, AGENTS[i])
       \/ LoopTurn(t, StageSuccess(i),
                   IF NextStage(i) \in 1..Len(AGENTS)
                   THEN [threads EXCEPT ![t].pc = "stage_run",
                                        ![t].i = NextStage(i)]
                   ELSE Goto(t, "coverage"))

\* A last event without the coverage summary.
run_agents_no_coverage(t) ==
    /\ At(t, "coverage")
    /\ \/ Raised(t, "coverage_summary")
       \/ LoopTurn(t, AgentUpdate("final", "completed", FALSE, "none"),
                   Goto(t, "gen_end"))

\* run_agents, lines 120-147: the coverage summary is written and yielded.
run_agents_coverage(t) ==
    /\ At(t, "coverage")
    /\ \/ Raised(t, "coverage_summary")
       \/ LoopTurn(t, AgentUpdate("final", "completed", FALSE, "simulated"),
                   Goto(t, "gen_end"))

\* Lines 104-115: the generator is exhausted, the run is marked completed.
execute_complete(t) ==
    LET r == threads[t].run IN
    /\ At(t, "gen_end")
    /\ IF r \in DOMAIN active_runs
       THEN /\ run_objs' = SetStatus(r, StatusCompleted)
            /\ add_event_to_queue(r, RunComplete(r))
       ELSE UNCHANGED <<run_objs, queue_objs, published>>
    /\ threads' = Goto(t, "finally_pop")
    /\ UNCHANGED <<active_runs, completed_runs, run_tasks, event_queues, subs,
                   start_calls, clocked,
                   cancel_result,
                   cancel_seen, got, service>>

\* RunManager._handle_run_failure_sync.
\* A failure handler that publishes nothing.
handle_run_failure_sync_silent(r, error) ==
    IF r \in DOMAIN active_runs
    THEN /\ run_objs' = [SetStatus(r, StatusFailed)
                           EXCEPT ![active_runs[r]].errors = Append(@, error)]
         /\ UNCHANGED <<queue_objs, published>>
    ELSE UNCHANGED <<run_objs, queue_objs, published>>

handle_run_failure_sync(r, error) ==
    IF r \in DOMAIN active_runs
    THEN /\ run_objs' = [SetStatus(r, StatusFailed)
                           EXCEPT ![active_runs[r]].errors = Append(@, error)]
         /\ add_event_to_queue(r, RunError(error))
    ELSE UNCHANGED <<run_objs, queue_objs, published>>

\* Lines 117-119: except Exception of _execute_run_sync.
execute_except(t) ==
    /\ At(t, "except")
    /\ handle_run_failure_sync(threads[t].run, threads[t].err)
    /\ threads' = Goto(t, "finally_pop")
    /\ UNCHANGED <<active_runs, completed_runs, run_tasks, event_queues, subs,
                   start_calls, clocked,
                   cancel_result,
                   cancel_seen, got, service>>

\* Line 122-123, first half: self.active_runs.pop(run_id).
execute_finally_pop(t) ==
    LET r == threads[t].run IN
    /\ At(t, "finally_pop")
    /\ IF r \in DOMAIN active_runs
       THEN /\ active_runs' = DictDel(active_runs, r)
            /\ threads' = [threads EXCEPT ![t].pc = "finally_set",
                                          ![t].popped = active_runs[r]]
       ELSE /\ threads' = Goto(t, "finally_check")
            /\ UNCHANGED active_runs
    /\ UNCHANGED <<run_objs, completed_runs, run_tasks, event_queues,
                   queue_objs, subs, published, start_calls, clocked,
                   cancel_result,
                   cancel_seen, got, service>>

\* Line 123, second half: self.completed_runs[run_id] = <popped>.
execute_finally_set(t) ==
    /\ At(t, "finally_set")
    /\ completed_runs' = DictPut(completed_runs, threads[t].run,
                                 threads[t].popped)
    /\ threads' = Goto(t, "finally_check")
    /\ UNCHANGED <<run_objs, active_runs, run_tasks, event_queues, queue_objs,
                   subs, published, start_calls, clocked,
                   cancel_result,
                   cancel_seen, got, service>>

\* Lines 126 and 162: the two membership tests before the stream_end put.
execute_finally_check(t) ==
    /\ At(t, "finally_check")
    /\ threads' = IF threads[t].run \in DOMAIN event_queues
                  THEN Goto(t, "finally_put")
                  ELSE Goto(t, "done")
    /\ UNCHANGED <<run_objs, active_runs, completed_runs, run_tasks,
                   event_queues, queue_objs, subs, published, start_calls, clocked,
                   cancel_result,
                   cancel_seen, got, service>>

\* Line 164, self.event_queues[run_id].put(event).  A subscription may have
\* deleted the entry since the tests: the KeyError leaves _execute_run_sync.
\* (The earlier puts of a run cannot meet this: see QueueKeptWhileActive.)
execute_finally_put(t) ==
    LET r == threads[t].run IN
    /\ At(t, "finally_put")
    /\ IF r \in DOMAIN event_queues
       THEN /\ PutOnQueue(r, event_queues[r], StreamEnd)
            /\ threads' = Goto(t, "done")
       ELSE /\ threads' = [threads EXCEPT ![t].pc = "background_except",
                                          ![t].err = "KeyError"]
            /\ UNCHANGED <<queue_objs, published>>
    /\ UNCHANGED <<run_objs, active_runs, completed_runs, run_tasks,
                   event_queues, subs, start_calls, clocked,
                   cancel_result,
                   cancel_seen, got, service>>

\* Lines 63-64: except Exception of run_in_background.
run_in_background_except(t) ==
    /\ At(t, "background_except")
    /\ handle_run_failure_sync(threads[t].run, threads[t].err)
    /\ threads' = Goto(t, "done")
    /\ UNCHANGED <<active_runs, completed_runs, run_tasks, event_queues, subs,
                   start_calls, clocked,
                   cancel_result,
                   cancel_seen, got, service>>

----------------------------------------------------------------------------
\* RunManager.cancel_run: run_tasks is what it consults.

\* RunManager.get_run_status; "absent" stands for None.
get_run_status(r) ==
    IF r \in DOMAIN active_runs
    THEN run_objs[active_runs[r]].status
    ELSE IF r \in DOMAIN completed_runs
         THEN run_objs[completed_runs[r]].status
         ELSE "absent"

\* A cancel_run that consults active_runs, not run_tasks.
cancel_run_active(r) ==
    /\ EventLoopFree
    /\ IF r \in DOMAIN active_runs
       THEN /\ run_objs' = [SetStatus(r, StatusFailed)
                              EXCEPT ![active_runs[r]].errors =
                                  Append(@, "Run cancelled by user")]
            /\ cancel_result' = "True"
       ELSE /\ cancel_result' = "False"
            /\ UNCHANGED run_objs
    /\ cancel_seen' = IF clocked
                      THEN [cancel_seen EXCEPT ![r] = get_run_status(r)]
                      ELSE cancel_seen
    /\ UNCHANGED <<active_runs, completed_runs, run_tasks, event_queues,
                   queue_objs, threads, subs, published, start_calls,
                   clocked, got, service>>

cancel_run(r) ==
    /\ EventLoopFree
    /\ IF r \in DOMAIN run_tasks
       THEN /\ run_objs' = IF r \in DOMAIN active_runs
                           THEN [SetStatus(r, StatusFailed)
                                   EXCEPT ![active_runs[r]].errors =
                                       Append(@, "Run cancelled by user")]
                           ELSE run_objs
            /\ cancel_result' = "True"
       ELSE /\ cancel_result' = "False"
            /\ UNCHANGED run_objs
    /\ cancel_seen' = IF clocked
                      THEN [cancel_seen EXCEPT ![r] = get_run_status(r)]
                      ELSE cancel_seen
    /\ UNCHANGED <<active_runs, completed_runs, run_tasks, event_queues,
                   queue_objs, threads, subs, published, start_calls,
                   clocked, got, service>>

----------------------------------------------------------------------------
\* RunManager.get_run: the Run object of the registry is returned as it is;
\* an id in neither registry is looked up on disk.

\* The worker of r that has popped the run and not yet stored it: the one
\* moment a started run is in neither registry.  Its state.json, if the
\* saves of lines 108 or 204 succeeded, holds the run as it is now.
Between(r) == {t \in ObjIds : threads[t].run = r /\ At(t, "finally_set")}

\* The Run object _load_run_state constructs.
LoadedObj(r) == <<r, start_calls[r] + 1>>

\* What state.json holds once worker t has popped its run.  A save that fails
\* is swallowed (lines 179-180) and leaves the file of the save before it:
\* the run as it is now when the save of line 108 or 204 succeeded, the run as
\* line 85 saved it (status running, nothing else yet) when it did not.
state_json(t) ==
    {run_objs[threads[t].popped], [NewRun EXCEPT !.status = StatusRunning]}

get_run(r) ==
    /\ EventLoopFree
    /\ \/ /\ r \in DOMAIN active_runs
          /\ got' = [run |-> r, ref |-> active_runs[r]]
          /\ UNCHANGED <<run_objs, completed_runs>>
       \/ /\ r \notin DOMAIN active_runs
          /\ r \in DOMAIN completed_runs
          /\ got' = [run |-> r, ref |-> completed_runs[r]]
          /\ UNCHANGED <<run_objs, completed_runs>>
       \/ \* _load_run_state: no state.json, or one that cannot be read
          /\ ~Registered(r)
          /\ got' = [run |-> r, ref |-> NoObj]
          /\ UNCHANGED <<run_objs, completed_runs>>
       \/ \* _load_run_state: Run(**run_dict), cached in completed_runs
          /\ ~Registered(r)
          /\ LoadedObj(r) \in ObjIds
          /\ \E t \in Between(r) : \E saved \in state_json(t) :
                 run_objs' = [run_objs EXCEPT ![LoadedObj(r)] = saved]
          /\ completed_runs' = DictPut(completed_runs, r, LoadedObj(r))
          /\ got' = [run |-> r, ref |-> LoadedObj(r)]
    /\ UNCHANGED <<active_runs, run_tasks, event_queues, queue_objs, threads,
                   subs, published, start_calls, clocked, cancel_result,
                   cancel_seen, service>>

----------------------------------------------------------------------------
\* RunManager.event_stream: one async generator per subscription.  A
\* subscription is "at a yield" (loop, yielded_*) or inside the run of code
\* that follows its break; that code holds the event-loop thread.

\* A connected event that does not say which run.
ConnectedWithoutId(r) ==
    Event("connected", "none", "none", FALSE, "none", "none")

Connected(r) ==
    [Event("connected", "none", "none", FALSE, "none", "none")
        EXCEPT !.runId = r]

NotFound == Event("error", "none", "none", FALSE, "none", "Run not found")

Heartbeat == Event("heartbeat", "none", "none", FALSE, "none", "none")

Yield(s, ev, pc) ==
    [subs EXCEPT ![s].delivered = Append(@, ev), ![s].pc = pc]

\* The time of a yield on run r.
Now(r) == IF clocked THEN Len(published[r]) ELSE 0

At_(ev, time) == [ev EXCEPT !.seq = time]

\* An event_stream that makes the queue it does not find (setdefault).
event_stream_open_create(s, r) ==
    /\ EventLoopFree
    /\ subs[s].pc = "closed"
    /\ event_queues' = IF r \in DOMAIN event_queues
                       THEN event_queues
                       ELSE DictPut(event_queues, r, <<r, 1>>)
    /\ subs' = [Yield(s, At_(Connected(r), Now(r)), "loop")
                   EXCEPT ![s].run = r, ![s].q = event_queues'[r]]
    /\ UNCHANGED <<run_objs, active_runs, completed_runs, run_tasks,
                   queue_objs, threads, published, start_calls, clocked,
                   cancel_result,
                   cancel_seen, got, service>>

\* Lines 223-231: the call and the first yield.
event_stream_open(s, r) ==
    /\ EventLoopFree
    /\ subs[s].pc = "closed"
    /\ subs' = IF r \notin DOMAIN event_queues
               THEN [Yield(s, NotFound, "yielded_error") EXCEPT ![s].run = r]
               ELSE [Yield(s, At_(Connected(r), Now(r)), "loop")
                        EXCEPT ![s].run = r, ![s].q = event_queues[r]]
    /\ UNCHANGED <<run_objs, active_runs, completed_runs, run_tasks,
                   event_queues, queue_objs, threads, published, start_calls, clocked,
                   cancel_result,
                   cancel_seen, got, service>>

\* Line 226: return after the error event.
event_stream_return(s) ==
    /\ EventLoopFree
    /\ subs[s].pc = "yielded_error"
    /\ subs' = [subs EXCEPT ![s].pc = "ended"]
    /\ UNCHANGED <<run_objs, active_runs, completed_runs, run_tasks,
                   event_queues, queue_objs, threads, published, start_calls, clocked,
                   cancel_result,
                   cancel_seen, got, service>>

\* Lines 236-248: event_queue.get returns an event, which is yielded.
event_stream_get(s) ==
    LET q == subs[s].q
        e == QueueHead(queue_objs[q])
    IN
    /\ EventLoopFree
    /\ subs[s].pc = "loop"
    /\ queue_objs[q] # <<>>
    /\ queue_objs' = [queue_objs EXCEPT ![q] = QueueRest(@)]
    /\ subs' = IF e.type = "stream_end"
               THEN Yield(s, e, "yielded_end")  \* an equal dict is yielded
               ELSE Yield(s, e, "loop")
    /\ UNCHANGED <<run_objs, active_runs, completed_runs, run_tasks,
                   event_queues, threads, published, start_calls, clocked,
                   cancel_result,
                   cancel_seen, got, service>>

\* Lines 250-252: event_queue.get times out on an empty queue.
event_stream_timeout(s) ==
    /\ EventLoopFree
    /\ subs[s].pc = "loop"
    /\ queue_objs[subs[s].q] = <<>>
    /\ subs[s].beats < MaxHeartbeats
    /\ subs' = [Yield(s, Heartbeat, "yielded_heartbeat")
                   EXCEPT ![s].beats = @ + 1]
    /\ UNCHANGED <<run_objs, active_runs, completed_runs, run_tasks,
                   event_queues, queue_objs, threads, published, start_calls, clocked,
                   cancel_result,
                   cancel_seen, got, service>>

\* Lines 250-252 once more: the log of the subscription keeps its first
\* MaxHeartbeats heartbeats only.
event_stream_timeout_again(s) ==
    /\ EventLoopFree
    /\ subs[s].pc = "loop"
    /\ queue_objs[subs[s].q] = <<>>
    /\ subs[s].beats = MaxHeartbeats
    /\ subs' = [subs EXCEPT ![s].pc = "yielded_heartbeat"]
    /\ UNCHANGED <<run_objs, active_runs, completed_runs, run_tasks,
                   event_queues, queue_objs, threads, published, start_calls,
                   clocked, cancel_result, cancel_seen, got, service>>

\* A loop that is left on stream_end only.
RunIsNeverOver(r, q) == FALSE

\* Lines 255-257: the test after a heartbeat.
RunIsOver(r, q) ==
    /\ r \notin DOMAIN active_runs
    /\ r \notin DOMAIN run_tasks
    /\ queue_objs[q] = <<>>

\* Lines 254-258, resumed after the heartbeat.
event_stream_after_heartbeat(s) ==
    /\ EventLoopFree
    /\ subs[s].pc = "yielded_heartbeat"
    /\ subs' = [subs EXCEPT ![s].pc =
                   IF RunIsOver(subs[s].run, subs[s].q)
                   THEN "cleanup" ELSE "loop"]
    /\ UNCHANGED <<run_objs, active_runs, completed_runs, run_tasks,
                   event_queues, queue_objs, threads, published, start_calls, clocked,
                   cancel_result,
                   cancel_seen, got, service>>

\* Line 241: break after stream_end was yielded.
event_stream_after_end(s) ==
    /\ EventLoopFree
    /\ subs[s].pc = "yielded_end"
    /\ subs' = [subs EXCEPT ![s].pc = "cleanup"]
    /\ UNCHANGED <<run_objs, active_runs, completed_runs, run_tasks,
                   event_queues, queue_objs, threads, published, start_calls, clocked,
                   cancel_result,
                   cancel_seen, got, service>>

\* Lines 265-272: the remaining events of the generator's queue are dropped.
event_stream_cleanup(s) ==
    /\ subs[s].pc = "cleanup"
    /\ IF subs[s].run \in DOMAIN event_queues
       THEN /\ queue_objs' = [queue_objs EXCEPT ![subs[s].q] = <<>>]
            /\ subs' = [subs EXCEPT ![s].pc = "cleanup_del"]
       ELSE /\ subs' = [subs EXCEPT ![s].pc = "ended"]
            /\ UNCHANGED queue_objs
    /\ UNCHANGED <<run_objs, active_runs, completed_runs, run_tasks,
                   event_queues, threads, published, start_calls, clocked,
                   cancel_result,
                   cancel_seen, got, service>>

\* Lines 273-274: del self.event_queues[run_id].
event_stream_cleanup_del(s) ==
    /\ subs[s].pc = "cleanup_del"
    /\ event_queues' = DictDel(event_queues, subs[s].run)
    /\ subs' = [subs EXCEPT ![s].pc = "ended"]
    /\ UNCHANGED <<run_objs, active_runs, completed_runs, run_tasks,
                   queue_objs, threads, published, start_calls, clocked,
                   cancel_result,
                   cancel_seen, got, service>>

\* The client goes away: the generator is closed at the yield it is suspended
\* at (GeneratorExit is no Exception; lines 264-274 are not in a finally).
event_stream_close(s) ==
    /\ EventLoopFree
    /\ subs[s].pc \in {"loop", "yielded_heartbeat", "yielded_end",
                       "yielded_error"}
    /\ subs' = [subs EXCEPT ![s].pc = "disconnected"]
    /\ UNCHANGED <<run_objs, active_runs, completed_runs, run_tasks,
                   event_queues, queue_objs, threads, published, start_calls, clocked,
                   cancel_result,
                   cancel_seen, got, service>>

----------------------------------------------------------------------------
\* Runs of the orchestrator: every run is started under a fresh id, as
\* main.start_analysis_run does (generate_run_id).

FreshStart == \E r \in RunIds, nb \in Notebooks :
                  start_calls[r] = 0 /\ start_run(r, nb)

\* A single run is started.
SoloStart == \E nb \in Notebooks :
                 (\A r \in RunIds : start_calls[r] = 0) /\ start_run("r1", nb)

\* _execute_run_sync up to the generator, and from its end or failure on.
Orchestrate ==
    \/ \E t \in ObjIds : execute_begin(t)
    \/ \E t \in ObjIds : run_agents_mkdir_raises(t)
    \/ \E t \in ObjIds : execute_except(t)
    \/ \E t \in ObjIds : execute_finally_pop(t)
    \/ \E t \in ObjIds : execute_finally_set(t)
    \/ \E t \in ObjIds : execute_finally_check(t)
    \/ \E t \in ObjIds : execute_finally_put(t)

\* The stages of run_agents and the completion of the run.
Pipeline ==
    \/ \E t \in ObjIds : run_agents_start(t)
    \/ \E t \in ObjIds : run_agents_notebook(t)
    \/ \E t \in ObjIds : run_agents_stage_running(t)
    \/ \E t \in ObjIds : run_agents_stage_body(t)
    \/ \E t \in ObjIds : run_agents_coverage(t)
    \/ \E t \in ObjIds : execute_complete(t)

Worker == Orchestrate \/ Pipeline

Stream(S) ==
    \/ \E s \in S, r \in RunIds : event_stream_open(s, r)
    \/ \E s \in S : event_stream_return(s)
    \/ \E s \in S : event_stream_get(s)
    \/ \E s \in S : event_stream_timeout(s)
    \/ \E s \in S : event_stream_after_heartbeat(s)
    \/ \E s \in S : event_stream_after_end(s)
    \/ \E s \in S : event_stream_cleanup(s)
    \/ \E s \in S : event_stream_cleanup_del(s)
    \/ \E s \in S : event_stream_close(s)

\* One run, its worker, and callers of cancel_run.
Next ==
    \/ SoloStart
    \/ Worker
    \/ \E r \in RunIds : cancel_run(r)

Spec == Init /\ [][Next]_vars

\* Two runs side by side.
NextRuns ==
    \/ FreshStart
    \/ Worker
    \/ \E r \in RunIds : cancel_run(r)

SpecRuns == Init /\ [][NextRuns]_vars

\* One run and one subscription.
NextStream ==
    \/ SoloStart
    \/ Worker
    \/ \E t \in ObjIds : run_in_background_except(t)
    \/ Stream({"s1"})

SpecStream == Init /\ [][NextStream]_vars

\* A step of a worker thread.
WorkerStep == Worker \/ \E t \in ObjIds : run_in_background_except(t)

\* The same; the worker is a thread of its own (threading.Thread, line 66),
\* which the operating system keeps scheduling whatever the event loop and
\* the subscriptions do.  Nothing is assumed of the subscriptions.
SpecStreamFair == SpecStream /\ WF_vars(WorkerStep)

\* The same, the time of the subscription recorded.
SpecStreamClocked == InitClocked /\ [][NextStream]_vars

\* Two subscriptions on one run; the run's artifacts directory cannot be
\* created, so that the run fails before its first stage.
NextFanout ==
    \/ SoloStart
    \/ Orchestrate
    \/ \E t \in ObjIds : run_in_background_except(t)
    \/ Stream(Subs)

SpecFanout == InitClocked /\ [][NextFanout]_vars

\* What a subscription does when the server resumes its generator.
Resume(s) ==
    \/ event_stream_return(s)
    \/ event_stream_get(s)
    \/ event_stream_timeout(s)
    \/ event_stream_timeout_again(s)
    \/ event_stream_after_heartbeat(s)
    \/ event_stream_after_end(s)
    \/ event_stream_cleanup(s)
    \/ event_stream_cleanup_del(s)

NextFanoutFair ==
    \/ NextFanout
    \/ \E s \in Subs : event_stream_timeout_again(s)

\* The same with heartbeats without end.  The worker thread keeps being
\* scheduled, and the server keeps resuming the generator of a response (it
\* asks for the next chunk as soon as it has sent one) until the generator
\* ends or the client goes away (event_stream_close).
SpecFanoutFair ==
    /\ InitClocked
    /\ [][NextFanoutFair]_vars
    /\ WF_vars(WorkerStep)
    /\ \A s \in Subs : WF_vars(Resume(s))

\* A caller reuses the id of a run whose worker has ended: start_run has no
\* test of its own.
Restart == \E nb \in Notebooks :
               /\ start_calls["r1"] + 1 \in Starts
               /\ start_calls["r1"] > 0 => threads[<<"r1", 1>>].pc = "done"
               /\ start_run("r1", nb)

NextRestart ==
    \/ Restart
    \/ Worker

SpecRestart == Init /\ [][NextRestart]_vars

\* One run, its worker, and callers of cancel_run whose requests are logged.
SpecCancel == InitClocked /\ [][Next]_vars

\* One run, its worker, and readers calling get_run.
NextRead ==
    \/ SoloStart
    \/ Worker
    \/ \E r \in RunIds : get_run(r)

SpecRead == Init /\ [][NextRead]_vars

----------------------------------------------------------------------------
\* agent_service.EnhancedCodeAnalyzer.  A string is a sequence of symbols:
\* "'" is a quote character, "http" the prefix http:// or https://.  A source
\* text is a sequence of lines (code.split('\n')), a line a sequence of calls,
\* each written with its quoted argument:  cy.get('#s').type('v')  is
\* <<Token("cy.get", Sel), Token(".type", Val1)>>.

Token(call, arg) == [call |-> call, arg |-> arg]

UrlA == <<"http", "a">>

UrlB == <<"http", "b">>

\* A relative address such as '/login'.
Rel == <<"/", "p">>

Sel == <<"#", "s">>

Val1 == <<"v">>

Val2 == <<"w">>

\* The empty string.
Blank == <<>>

\* Python's None.
None == <<"None">>

Quoted(str) == <<"'">> \o str \o <<"'">>

\* str.startswith(('http://', 'https://'))
startswith_http(str) == Len(str) > 0 /\ str[1] = "http"

RECURSIVE lstrip_quotes(_)
lstrip_quotes(str) ==
    IF str # <<>> /\ Head(str) = "'" THEN lstrip_quotes(Tail(str)) ELSE str

RECURSIVE rstrip_quotes(_)
rstrip_quotes(str) ==
    IF str # <<>> /\ str[Len(str)] = "'"
    THEN rstrip_quotes(SubSeq(str, 1, Len(str) - 1))
    ELSE str

\* str.strip('\'"')
strip_quotes(str) == rstrip_quotes(lstrip_quotes(str))

\* The text as re.findall sees it: the calls of all lines, in order.
RECURSIVE Flatten(_)
Flatten(lines) ==
    IF lines = <<>> THEN <<>> ELSE Head(lines) \o Flatten(Tail(lines))

\* self.url_extraction_patterns, by position in the list.
url_extraction_patterns ==
    <<"cy.visit", "cy.url.should.eq", "page.goto", "await page.goto",
      "driver.get", "get", "quoted http">>

\* Whether the pattern matches at the call.  [^"']+ wants a non-empty
\* argument; 'page\.goto' also matches inside 'await page.goto', and
\* 'get\s*\(' inside 'driver.get(' and 'cy.get('.
PatternMatches(pattern, tok) ==
    CASE pattern = "cy.visit" -> tok.call = "cy.visit" /\ tok.arg # <<>>
      [] pattern = "cy.url.should.eq" ->
             tok.call = "cy.url.should.eq" /\ tok.arg # <<>>
      [] pattern = "page.goto" ->
             tok.call \in {"page.goto", "await page.goto"} /\ tok.arg # <<>>
      [] pattern = "await page.goto" ->
             tok.call = "await page.goto" /\ tok.arg # <<>>
      [] pattern = "driver.get" -> tok.call = "driver.get" /\ tok.arg # <<>>
      [] pattern = "get" ->
             tok.call \in {"driver.get", "cy.get"} /\ tok.arg # <<>>
      [] pattern = "quoted http" ->
             startswith_http(tok.arg)

\* What re.findall returns for the match: the group, or, for the last
\* pattern, which has no group, the whole match with its quotes.
MatchOf(pattern, tok) ==
    IF pattern = "quoted http" THEN Quoted(tok.arg) ELSE tok.arg

findall(pattern, text) ==
    LET hits == SelectSeq(text, LAMBDA tok : PatternMatches(pattern, tok))
    IN  [i \in 1..Len(hits) |-> MatchOf(pattern, hits[i])]

\* Lines 138-147: the matches of the patterns, pattern by pattern, those
\* kept that start with http:// or https://.
RECURSIVE CollectUrls(_, _)
CollectUrls(k, text) ==
    IF k > Len(url_extraction_patterns)
    THEN <<>>
    ELSE LET matches == findall(url_extraction_patterns[k], text)
             kept    == SelectSeq(matches, startswith_http)
         IN  [i \in 1..Len(kept) |-> strip_quotes(kept[i])]
             \o CollectUrls(k + 1, text)

IsIn(x, seq) == \E i \in 1..Len(seq) : seq[i] = x

Range(f) == {f[i] : i \in DOMAIN f}

\* Lines 149-154: the first occurrence of each element is kept.
RECURSIVE RemoveDuplicates(_, _)
RemoveDuplicates(urls, unique_urls) ==
    IF urls = <<>>
    THEN unique_urls
    ELSE RemoveDuplicates(Tail(urls),
                          IF IsIn(Head(urls), unique_urls)
                          THEN unique_urls
                          ELSE Append(unique_urls, Head(urls)))

extract_real_urls(text) ==
    RemoveDuplicates(CollectUrls(1, Flatten(text)), <<>>)

----------------------------------------------------------------------------
\* EnhancedCodeAnalyzer.parse_test_steps.  re.search takes the leftmost
\* match, and a '.*' inside a pattern runs to the last call it can reach.

Calls(line, names) == {i \in 1..Len(line) : line[i].call \in names}

Min(S) == CHOOSE x \in S : \A y \in S : x <= y

Max(S) == CHOOSE x \in S : \A y \in S : x >= y

\* line.strip() is empty, or starts with '//' or '*'.
Skipped(line) == line = <<>> \/ line[1].call \in {"//", "*"}

\* '.should(' in line
HasShould(line) ==
    Calls(line, {".should", ".should.have.value", "cy.url.should.eq"}) # {}

\* cy.get('sel').type('v') ... .should('have.value', 'x'): where the
\* leftmost match starts.
ChainStarts(line) ==
    {i \in Calls(line, {"cy.get"}) :
        /\ line[i].arg # <<>>
        /\ i + 1 \in Calls(line, {".type"})
        /\ \E j \in Calls(line, {".should.have.value"}) : j > i + 1}

chain_steps(line, line_num) ==
    LET i == Min(ChainStarts(line))
        j == Max(Calls(line, {".should.have.value"}))
    IN  <<[type |-> "input", action |-> "type", selector |-> line[i].arg,
           value |-> line[i + 1].arg, line_number |-> line_num,
           original_code |-> line],
          [type |-> "assert_value", action |-> "should",
           selector |-> line[i].arg, assertion_type |-> "have.value",
           expected_value |-> line[j].arg, line_number |-> line_num,
           original_code |-> line]>>

UrlAsserts(line) ==
    {i \in Calls(line, {"cy.url.should.eq"}) : line[i].arg # <<>>}

url_assert_steps(line, line_num) ==
    <<[type |-> "assert_url", action |-> "should", selector |-> "url",
       assertion_type |-> "eq",
       expected_value |-> line[Min(UrlAsserts(line))].arg,
       line_number |-> line_num, original_code |-> line]>>

Navigations(line) ==
    {i \in Calls(line, {"cy.visit", "page.goto", "await page.goto",
                        "driver.get"}) : line[i].arg # <<>>}

\* The first group of nav_pattern: the name of the call, without 'await'.
NavAction(call) == IF call = "await page.goto" THEN "page.goto" ELSE call

nav_steps(line, line_num) ==
    LET i == Min(Navigations(line)) IN
    <<[type |-> "navigation", action |-> NavAction(line[i].call),
       url |-> line[i].arg, line_number |-> line_num,
       original_code |-> line]>>

\* cy.get('sel') with the call named later in the line.
GetsBefore(line, name) ==
    {i \in Calls(line, {"cy.get"}) :
        line[i].arg # <<>> /\ \E j \in Calls(line, {name}) : j > i}

click_steps(line, line_num) ==
    <<[type |-> "click", action |-> "click",
       selector |-> line[Min(GetsBefore(line, ".click"))].arg,
       line_number |-> line_num, original_code |-> line]>>

type_steps(line, line_num) ==
    <<[type |-> "input", action |-> "type",
       selector |-> line[Min(GetsBefore(line, ".type"))].arg,
       value |-> line[Max(Calls(line, {".type"}))].arg,
       line_number |-> line_num, original_code |-> line]>>

\* A loop that looks for a navigation before it looks for a URL assertion.
line_steps_nav_first(line, line_num) ==
    IF Skipped(line) THEN <<>>
    ELSE IF ChainStarts(line) # {} THEN chain_steps(line, line_num)
    ELSE IF Navigations(line) # {} THEN nav_steps(line, line_num)
    ELSE IF UrlAsserts(line) # {} THEN url_assert_steps(line, line_num)
    ELSE IF GetsBefore(line, ".click") # {} THEN click_steps(line, line_num)
    ELSE IF GetsBefore(line, ".type") # {} /\ ~HasShould(line)
         THEN type_steps(line, line_num)
    ELSE <<>>

\* One turn of the loop of lines 160-246.
line_steps(line, line_num) ==
    IF Skipped(line) THEN <<>>
    ELSE IF ChainStarts(line) # {} THEN chain_steps(line, line_num)
    ELSE IF UrlAsserts(line) # {} THEN url_assert_steps(line, line_num)
    ELSE IF Navigations(line) # {} THEN nav_steps(line, line_num)
    ELSE IF GetsBefore(line, ".click") # {} THEN click_steps(line, line_num)
    ELSE IF GetsBefore(line, ".type") # {} /\ ~HasShould(line)
         THEN type_steps(line, line_num)
    ELSE <<>>

RECURSIVE StepsFrom(_, _)
StepsFrom(line_num, lines) ==
    IF line_num > Len(lines)
    THEN <<>>
    ELSE line_steps(lines[line_num], line_num) \o StepsFrom(line_num + 1, lines)

parse_test_steps(text) == StepsFrom(1, text)

\* dict.get(key, default)
Get(dict, key, default) == IF key \in DOMAIN dict THEN dict[key] ELSE default

\* str.startswith('assert_'), on the names of step kinds: 'assertion' has
\* an 'i' where the prefix has its '_'.
startswith_assert_(str) == str \in {"assert_url", "assert_value", "assert_css"}

\* EnhancedCodeAnalyzer.calculate_complexity_score: what one turn of the
\* loop adds to the score.
StepWeight(step_type) ==
    CASE step_type = "navigation" -> 1
      [] step_type = "click" -> 2
      [] step_type = "input" -> 3
      [] startswith_assert_(step_type) -> 2
      [] OTHER -> 0

\* A scorer that counts each kind of step once.
RECURSIVE calculate_complexity_score_kinds(_)
calculate_complexity_score_kinds(parsed_steps) ==
    IF parsed_steps = <<>>
    THEN 0
    ELSE LET step_type == Get(Head(parsed_steps), "type", "")
             later     == Tail(parsed_steps)
         IN  (IF \E i \in 1..Len(later) :
                     Get(later[i], "type", "") = step_type
              THEN 0
              ELSE StepWeight(step_type))
             + calculate_complexity_score_kinds(later)

RECURSIVE calculate_complexity_score(_)
calculate_complexity_score(parsed_steps) ==
    IF parsed_steps = <<>>
    THEN 0
    ELSE StepWeight(Get(Head(parsed_steps), "type", ""))
         + calculate_complexity_score(Tail(parsed_steps))

\* EnhancedCodeAnalyzer.analyze_code, called when datetime.now() is now.
analyze_code(text, name, now) ==
    LET real_urls    == extract_real_urls(text)
        parsed_steps == parse_test_steps(text)
    IN  [filename           |-> name,
         real_urls          |-> real_urls,
         primary_url        |-> IF real_urls # <<>> THEN real_urls[1] ELSE None,
         parsed_steps       |-> parsed_steps,
         lines_count        |-> Len(text),
         complexity_score   |-> calculate_complexity_score(parsed_steps),
         analysis_timestamp |-> now,
         urls_found         |-> Len(real_urls),
         steps_parsed       |-> Len(parsed_steps)]

\* A caller has the text analysed.
call_analyze_code ==
    /\ Len(analyses) < MaxCalls
    /\ analyses' = Append(analyses, analyze_code(code, filename, wall_clock))
    /\ UNCHANGED <<runner, sockets, given, generated, code, filename, wall_clock,
                   service_runs, workflow_pc, broadcasts>>

\* Time passes.
tick ==
    /\ wall_clock < MaxClock
    /\ wall_clock' = wall_clock + 1
    /\ UNCHANGED <<runner, sockets, given, generated, code, filename, analyses,
                   service_runs, workflow_pc, broadcasts>>

----------------------------------------------------------------------------
\* DynamicPlaywrightGenerator and EnhancedGherkinGenerator.  A rendered
\* string is the text of its f-string with the values it interpolates.

\* Bounds on the arguments handed to the generators and to the scorer.
MaxSteps == 2

MaxScored == 2

Rendered(template, operands) == [template |-> template, operands |-> operands]

\* The keys of self.playwright_mappings.
playwright_mappings ==
    {"navigation", "click", "input", "assert_url", "assert_value",
     "assert_css", "assertion", "wait"}

\* _preserve_clean_selector
preserve_clean_selector(selector) == strip_quotes(selector)

generate_navigation_step(step) ==
    LET url == Get(step, "url", Blank) IN
    IF url # Blank
    THEN Rendered("  await page.goto('{url}');\n  await page.waitForLoadState('networkidle');",
                  <<url>>)
    ELSE Rendered("  //Navigation step - URL not found", <<>>)

generate_click_step(step) ==
    LET selector == Get(step, "selector", Blank) IN
    IF selector # Blank
    THEN Rendered("  await page.locator('{cleaned_selector}').click();",
                  <<preserve_clean_selector(selector)>>)
    ELSE Rendered("  //Click step - selector not found", <<>>)

generate_input_step(step) ==
    LET selector == Get(step, "selector", Blank)
        value    == Get(step, "value", Blank)
    IN  IF selector # Blank /\ value # Blank
        THEN Rendered("  await page.locator('{cleaned_selector}').fill('{value}');",
                      <<preserve_clean_selector(selector), value>>)
        ELSE IF selector # Blank
        THEN Rendered("  await page.locator('{cleaned_selector}').fill('');",
                      <<preserve_clean_selector(selector)>>)
        ELSE Rendered("  //Input step - selector not found", <<>>)

generate_url_assertion_step(step) ==
    LET expected_url == Get(step, "expected_value", Blank) IN
    IF expected_url # Blank
    THEN Rendered("  expect(page.url()).toBe('{expected_url}');",
                  <<expected_url>>)
    ELSE Rendered("  //URL assertion - expected URL not found", <<>>)

generate_value_assertion_step(step) ==
    LET selector       == Get(step, "selector", Blank)
        expected_value == Get(step, "expected_value", Blank)
    IN  IF selector # Blank /\ expected_value # Blank
        THEN Rendered("  await expect(page.locator('{cleaned_selector}')).toHaveValue('{expected_value}');",
                      <<preserve_clean_selector(selector), expected_value>>)
        ELSE IF selector # Blank
        THEN Rendered("  await expect(page.locator('{cleaned_selector}')).toBeVisible();",
                      <<preserve_clean_selector(selector)>>)
        ELSE Rendered("  //Value assertion - selector not found", <<>>)

generate_css_assertion_step(step) ==
    LET selector       == Get(step, "selector", Blank)
        css_property   == Get(step, "css_property", Blank)
        expected_value == Get(step, "expected_value", Blank)
    IN  IF selector # Blank /\ css_property # Blank /\ expected_value # Blank
        THEN Rendered("  await expect(page.locator('{cleaned_selector}')).toHaveCSS('{css_property}','{expected_value}');",
                      <<preserve_clean_selector(selector), css_property,
                        expected_value>>)
        ELSE IF selector # Blank
        THEN Rendered("  await expect(page.locator('{cleaned_selector}')).toBeVisible();",
                      <<preserve_clean_selector(selector)>>)
        ELSE Rendered("  //CSS assertion - missing properties", <<>>)

generate_generic_assertion_step(step) ==
    LET selector       == Get(step, "selector", Blank)
        assertion_type == Get(step, "assertion_type", "")
        expected_value == Get(step, "expected_value", Blank)
    IN  IF assertion_type \in {"be.visible", "be.visible()", "exist",
                               "be.exist"}
        THEN Rendered("  await expect(page.locator('{cleaned_selector}')).toBeVisible();",
                      <<preserve_clean_selector(selector)>>)
        ELSE IF /\ assertion_type \in {"have.text", "contain.text", "contain"}
                /\ expected_value # Blank
        THEN Rendered("  await expect(page.locator('{cleaned_selector}')).toContainText('{expected_value}');",
                      <<preserve_clean_selector(selector), expected_value>>)
        ELSE Rendered("  await expect(page.locator('{cleaned_selector}')).toBeVisible();",
                      <<preserve_clean_selector(selector)>>)

generate_wait_step(step) ==
    Rendered("  await page.waitForLoadState('networkidle');", <<>>)

\* self.playwright_mappings[step_type](step)
MappedStep(step_type, step) ==
    CASE step_type = "navigation" -> generate_navigation_step(step)
      [] step_type = "click" -> generate_click_step(step)
      [] step_type = "input" -> generate_input_step(step)
      [] step_type = "assert_url" -> generate_url_assertion_step(step)
      [] step_type = "assert_value" -> generate_value_assertion_step(step)
      [] step_type = "assert_css" -> generate_css_assertion_step(step)
      [] step_type = "assertion" -> generate_generic_assertion_step(step)
      [] step_type = "wait" -> generate_wait_step(step)

\* 'if primary_url': neither None nor the empty string.
Truthy(str) == str # None /\ str # Blank

\* One turn of the loop of lines 498-501: what it appends to test_code.
TestEntry(step) ==
    LET step_type == Get(step, "type", "unknown") IN
    IF step_type \in playwright_mappings
    THEN <<Rendered("    {}\n", <<MappedStep(step_type, step)>>)>>
    ELSE <<>>

RECURSIVE TestEntries(_)
TestEntries(parsed_steps) ==
    IF parsed_steps = <<>>
    THEN <<>>
    ELSE TestEntry(Head(parsed_steps)) \o TestEntries(Tail(parsed_steps))

\* A generator that leaves out the steps it has no operand for.
generate_playwright_test_dropping(analysis) ==
    LET primary_url == Get(analysis, "primary_url", None) IN
    [describe   |-> Get(analysis, "normalized_filename", "unknown"),
     beforeEach |-> IF Truthy(primary_url) THEN primary_url ELSE None,
     test       |-> SelectSeq(TestEntries(Get(analysis, "parsed_steps", <<>>)),
                              LAMBDA entry : entry.operands[1].operands # <<>>)]

\* DynamicPlaywrightGenerator.generate_playwright_test: the suite named
\* after the file, its beforeEach (None when there is none) and the body of
\* its one test.
generate_playwright_test(analysis) ==
    LET primary_url == Get(analysis, "primary_url", None) IN
    [describe   |-> Get(analysis, "normalized_filename", "unknown"),
     beforeEach |-> IF Truthy(primary_url) THEN primary_url ELSE None,
     test       |-> TestEntries(Get(analysis, "parsed_steps", <<>>))]

\* str.lower(), on the file names of the model.
lower(str) == IF str = "Login.cy.js" THEN "login.cy.js" ELSE str

\* One turn of the loop of lines 530-538: what it appends to
\* feature_content.
ScenarioLine(step) ==
    LET step_type == Get(step, "type", "") IN
    IF step_type = "navigation"
    THEN <<Rendered("  When I navigate to \"{url}\"\n",
                    <<Get(step, "url", Blank)>>)>>
    ELSE IF step_type = "click"
    THEN <<Rendered("  When I click on the element \"{selector}\"\n",
                    <<Get(step, "selector", Blank)>>)>>
    ELSE IF step_type = "input"
    THEN <<Rendered("  When I enter \"{value}\" in \"{selector}\"\n",
                    <<Get(step, "value", Blank),
                      Get(step, "selector", Blank)>>)>>
    ELSE IF startswith_assert_(step_type)
    THEN <<Rendered("  Then the element \"{selector}\" should be validated\n",
                    <<Get(step, "selector", Blank)>>)>>
    ELSE <<>>

RECURSIVE ScenarioLines(_)
ScenarioLines(parsed_steps) ==
    IF parsed_steps = <<>>
    THEN <<>>
    ELSE ScenarioLine(Head(parsed_steps)) \o ScenarioLines(Tail(parsed_steps))

\* A generator that says so when the scenario has no step.
generate_gherkin_feature_noting(analysis) ==
    LET name         == Get(analysis, "filename", "unknown")
        primary_url  == Get(analysis, "primary_url", None)
        parsed_steps == Get(analysis, "parsed_steps", <<>>)
    IN  [feature    |-> <<name, lower(name)>>,
         background |-> IF Truthy(primary_url) THEN primary_url ELSE None,
         scenario   |-> IF parsed_steps = <<>>
                        THEN <<Rendered("  # no steps found\n", <<>>)>>
                        ELSE ScenarioLines(parsed_steps)]

\* EnhancedGherkinGenerator.generate_gherkin_feature: the Feature header
\* with the names it interpolates, the address of the Background (None when
\* there is none) and the lines under the Scenario header.
generate_gherkin_feature(analysis) ==
    LET name        == Get(analysis, "filename", "unknown")
        primary_url == Get(analysis, "primary_url", None)
    IN  [feature    |-> <<name, lower(name)>>,
         background |-> IF Truthy(primary_url) THEN primary_url ELSE None,
         scenario   |-> ScenarioLines(Get(analysis, "parsed_steps", <<>>))]

\* state["playwright_code"] = generate_playwright_test(...), line 787.
call_generate_playwright_test(analysis) ==
    /\ generated' = DictPut(generated, "playwright_code",
                            generate_playwright_test(analysis))
    /\ UNCHANGED <<runner, sockets, given, code, filename, wall_clock, analyses,
                   service_runs, workflow_pc, broadcasts>>

\* state["gherkin_feature"] = generate_gherkin_feature(...), line 668.
call_generate_gherkin_feature(analysis) ==
    /\ generated' = DictPut(generated, "gherkin_feature",
                            generate_gherkin_feature(analysis))
    /\ UNCHANGED <<runner, sockets, given, code, filename, wall_clock, analyses,
                   service_runs, workflow_pc, broadcasts>>

\* The scorer is given a list, another list, and the two joined.
call_calculate_complexity_score ==
    /\ generated' =
           [A  |-> calculate_complexity_score(given[1]),
            B  |-> calculate_complexity_score(given[2]),
            AB |-> calculate_complexity_score(given[1] \o given[2])]
    /\ UNCHANGED <<runner, sockets, given, code, filename, wall_clock, analyses,
                   service_runs, workflow_pc, broadcasts>>

----------------------------------------------------------------------------
\* agent_service.start_analysis and process_workflow.

\* The texts of the requests.
WorkflowTexts ==
    {<<Blank>>,
     <<<<Token("cy.visit", UrlA)>>>>,
     <<<<Token("cy.visit", UrlA)>>,
       <<Token("cy.get", Sel), Token(".type", Val1),
         Token(".should.have.value", Val1)>>>>}

\* The agents list of process_workflow; current_step and the key of the
\* state each agent writes when its transform succeeds.
CurrentStepOf ==
    [code_analysis |-> "code_analyzed", user_story |-> "user_story_generated",
     gherkin |-> "gherkin_generated", test_plan |-> "test_plan_generated",
     playwright |-> "playwright_generated",
     execution |-> "execution_completed", coverage |-> "coverage_generated",
     final_report |-> "completed"]

OutputOf ==
    [code_analysis |-> "ast_analysis", user_story |-> "user_story",
     gherkin |-> "gherkin_feature", test_plan |-> "test_plan",
     playwright |-> "playwright_code", execution |-> "execution_result",
     coverage |-> "coverage_report", final_report |-> "final_report"]

\* The agents whose try block can raise before it stores anything: gherkin
\* and playwright call a generator on the analysis, final_report opens files
\* under config.output_dir.  The other try blocks read the analysis with
\* dict.get and build strings and numbers.
FallibleAgents == {"gherkin", "playwright", "final_report"}

Message(type, agent, status) ==
    [type |-> type, agent |-> agent, status |-> status]

\* Lines 1101-1121: initial_state.
initial_state(text, name, analysis) ==
    [original_code |-> text, filename |-> name, ast_analysis |-> analysis,
     outputs |-> {}, current_step |-> "initialized", errors |-> <<>>]

\* start_analysis with payload code = text; the run id is a fresh uuid.
start_analysis(r) ==
    /\ code # <<Blank>>
    /\ r \notin DOMAIN service_runs
    /\ LET analysis == analyze_code(code, filename, wall_clock) IN
       /\ analyses' = Append(analyses, analysis)
       /\ service_runs' =
              DictPut(service_runs, r, initial_state(code, filename, analysis))
    /\ workflow_pc' = DictPut(workflow_pc, r, 1)
    /\ broadcasts' = DictPut(broadcasts, r, <<>>)
    /\ UNCHANGED <<runner, sockets, given, generated, code, filename, wall_clock>>

\* code_analysis_agent, lines 559-566: the analysis is stamped in place.
code_analysis_agent(state, now) ==
    [state EXCEPT
        !.ast_analysis = [analysis_timestamp |-> now,
                          agent_version      |-> "3.0.0-FIXED",
                          subfolder_origin   |-> "root",
                          parsing_engine     |-> "enhanced_fixed_assertions"]
                         @@ @,
        !.current_step = "code_analyzed"]

\* The try block of the seven later agents: the output is stored, then
\* current_step.
agent_succeeds(state, agent) ==
    [state EXCEPT !.outputs = @ \cup {OutputOf[agent]},
                  !.current_step = CurrentStepOf[agent]]

\* An except block that also records the failure in current_step.
agent_fails_marking(state, agent) ==
    [state EXCEPT !.errors = Append(@, agent), !.current_step = "failed"]

\* Their except block.
agent_fails(state, agent) ==
    [state EXCEPT !.errors = Append(@, agent)]

\* One turn of the loop of process_workflow, lines 1151-1162.
workflow_stage(r) ==
    /\ r \in DOMAIN workflow_pc
    /\ workflow_pc[r] \in 1..Len(AGENTS)
    /\ LET agent == AGENTS[workflow_pc[r]]
           state == service_runs[r]
           said  == broadcasts[r]
                    \o <<Message("workflow_progress", agent, "none"),
                         Message("agent_update", agent, "running")>>
       IN
       \/ /\ agent = "code_analysis"
          /\ service_runs' = [service_runs EXCEPT
                                 ![r] = code_analysis_agent(state, wall_clock)]
          /\ broadcasts' = [broadcasts EXCEPT ![r] =
                 Append(said, Message("agent_update", agent, "success"))]
       \/ /\ agent # "code_analysis"
          /\ service_runs' = [service_runs EXCEPT
                                 ![r] = agent_succeeds(state, agent)]
          /\ broadcasts' = [broadcasts EXCEPT ![r] =
                 Append(said, Message("agent_update", agent, "success"))]
       \/ /\ agent \in FallibleAgents
          /\ service_runs' = [service_runs EXCEPT
                                 ![r] = agent_fails(state, agent)]
          /\ broadcasts' = [broadcasts EXCEPT ![r] =
                 Append(said, Message("agent_update", agent, "error"))]
    /\ workflow_pc' = [workflow_pc EXCEPT ![r] = @ + 1]
    /\ UNCHANGED <<runner, sockets, given, generated, code, filename, wall_clock,
                   analyses>>

\* The workflow_complete message: final_state.errors is state["errors"].
WorkflowComplete(errors) ==
    [errors |-> errors] @@ Message("workflow_complete", "none", "completed")

\* Lines 1164-1173: the loop has ended.
workflow_complete(r) ==
    /\ r \in DOMAIN workflow_pc
    /\ workflow_pc[r] = Len(AGENTS) + 1
    /\ workflow_pc' = [workflow_pc EXCEPT ![r] = Len(AGENTS) + 2]
    /\ broadcasts' = [broadcasts EXCEPT ![r] =
           Append(@, WorkflowComplete(service_runs[r].errors))]
    /\ UNCHANGED <<runner, sockets, given, generated, code, filename, wall_clock,
                   analyses, service_runs>>

----------------------------------------------------------------------------
\* ConnectionManager and websocket_endpoint.  Everything here runs on the
\* event loop: a coroutine runs from one await to the next without
\* interruption, and at an await any other coroutine may run.

\* list.remove: the first occurrence is taken out, the rest moves up.
RECURSIVE ListRemove(_, _)
ListRemove(list, x) ==
    IF list = <<>> THEN <<>>
    ELSE IF Head(list) = x THEN Tail(list)
    ELSE <<Head(list)>> \o ListRemove(Tail(list), x)

\* ConnectionManager.disconnect on run_connections (active_connections is
\* never read).
disconnect(connections, websocket, run_id) ==
    IF run_id \in DOMAIN connections /\ IsIn(websocket, connections[run_id])
    THEN [connections EXCEPT ![run_id] = ListRemove(@, websocket)]
    ELSE connections

RECURSIVE DisconnectAll(_, _, _)
DisconnectAll(connections, disconnected, run_id) ==
    IF disconnected = <<>> THEN connections
    ELSE DisconnectAll(disconnect(connections, Head(disconnected), run_id),
                       Tail(disconnected), run_id)

\* websocket_endpoint up to its first receive_text: manager.connect.
websocket_connect(w, r) ==
    /\ websockets[w].pc = "new"
    /\ websockets' = [websockets EXCEPT ![w] = [run |-> r, pc |-> "open"]]
    /\ run_connections' =
           DictPut(run_connections, r, Append(Get(run_connections, r, <<>>), w))
    /\ UNCHANGED <<runner, coroutines, sent, given, generated, code, filename,
                   wall_clock, analyses, service_runs, workflow_pc, broadcasts>>

\* The client of w goes away: from now on a send to w raises, and the
\* receive_text the handler is suspended in will raise WebSocketDisconnect.
client_leaves(w) ==
    /\ websockets[w].pc = "open"
    /\ websockets' = [websockets EXCEPT ![w].pc = "gone"]
    /\ UNCHANGED <<runner, run_connections, coroutines, sent, given, generated,
                   code, filename, wall_clock, analyses, service_runs,
                   workflow_pc, broadcasts>>

\* Lines 1072-1073: the handler is resumed with WebSocketDisconnect.
websocket_disconnect(w) ==
    /\ websockets[w].pc = "gone"
    /\ websockets' = [websockets EXCEPT ![w].pc = "closed"]
    /\ run_connections' = disconnect(run_connections, w, websockets[w].run)
    /\ UNCHANGED <<runner, coroutines, sent, given, generated, code, filename,
                   wall_clock, analyses, service_runs, workflow_pc, broadcasts>>

\* A call of broadcast_to_run that has not begun to run.  awaited: the
\* caller awaits it (process_workflow) rather than hands it to create_task.
\* i is the index of the list iterator of line 366, conn the connection of
\* the send it is suspended in, failing whether that send will raise.
\* registered is a log: the connections of the run when the call began.
Coroutine(r, message, awaited) ==
    [run |-> r, message |-> message, awaited |-> awaited, pc |-> "created",
     i |-> 0, conn |-> "none", failing |-> FALSE, disconnected |-> <<>>,
     registered |-> {}]

\* The for statement of line 366 is asked for its next connection.  The
\* iterator reads the list as it is now: there is one, and send_text is
\* called with it (the message is handed to the connection unless its client
\* has gone) and suspends the coroutine; or there is none, and lines 372-374
\* disconnect what failed.
ForNext(t, co) ==
    LET list == run_connections[co.run] IN
    IF co.i < Len(list)
    THEN LET connection == list[co.i + 1]
             open == websockets[connection].pc = "open" IN
         /\ coroutines' = [coroutines EXCEPT ![t] =
                [co EXCEPT !.pc = "sending", !.i = co.i + 1,
                           !.conn = connection, !.failing = ~open]]
         /\ sent' = IF open
                    THEN [sent EXCEPT ![connection] = Append(@, co.message)]
                    ELSE sent
         /\ UNCHANGED run_connections
    ELSE /\ coroutines' = [coroutines EXCEPT ![t] =
                [co EXCEPT !.pc = "done", !.conn = "none",
                           !.failing = FALSE]]
         /\ run_connections' =
                DisconnectAll(run_connections, co.disconnected, co.run)
         /\ UNCHANGED sent

\* The event loop runs what it is given in the order it was given it
\* (create_task schedules with call_soon): a coroutine begins once every
\* coroutine created before it has begun.  Line 365, and the first turn of
\* the loop.
broadcast_to_run_begin(t) ==
    /\ t \in 1..Len(coroutines)
    /\ coroutines[t].pc = "created"
    /\ \A u \in 1..(t - 1) : coroutines[u].pc # "created"
    /\ LET co == coroutines[t] IN
       IF co.run \in DOMAIN run_connections
       THEN ForNext(t, [co EXCEPT !.registered =
                                     Range(run_connections[co.run])])
       ELSE /\ coroutines' = [coroutines EXCEPT ![t].pc = "done"]
            /\ UNCHANGED <<run_connections, sent>>
    /\ UNCHANGED <<runner, websockets, given, generated, code, filename,
                   wall_clock, analyses, service_runs, workflow_pc, broadcasts>>

\* Lines 367-370: the send returns or raises, and the loop goes on.  Which
\* of two suspended sends returns first is up to the connections.
broadcast_to_run_resume(t) ==
    /\ t \in 1..Len(coroutines)
    /\ coroutines[t].pc = "sending"
    /\ LET co == coroutines[t] IN
       ForNext(t, IF co.failing
                  THEN [co EXCEPT !.disconnected = Append(@, co.conn)]
                  ELSE co)
    /\ UNCHANGED <<runner, websockets, given, generated, code, filename,
                   wall_clock, analyses, service_runs, workflow_pc, broadcasts>>

\* The awaited broadcast of process_workflow for the agent it is about to
\* call.
Progress(agent) == Message("workflow_progress", agent, "none")

Announced(r, agent) ==
    \E t \in 1..Len(coroutines) :
        /\ coroutines[t].run = r
        /\ coroutines[t].awaited
        /\ coroutines[t].message = Progress(agent)

AwaitedDone(r) ==
    \A t \in 1..Len(coroutines) :
        (coroutines[t].run = r /\ coroutines[t].awaited)
        => coroutines[t].pc = "done"

\* Lines 1151-1156: process_workflow calls broadcast_to_run and awaits it.
process_workflow_progress(r) ==
    /\ r \in DOMAIN workflow_pc
    /\ workflow_pc[r] \in 1..StagesWatched
    /\ workflow_pc[r] <= Len(AGENTS)
    /\ ~Announced(r, AGENTS[workflow_pc[r]])
    /\ coroutines' = Append(coroutines,
                            Coroutine(r, Progress(AGENTS[workflow_pc[r]]),
                                      TRUE))
    /\ broadcasts' = [broadcasts EXCEPT ![r] =
           Append(@, Progress(AGENTS[workflow_pc[r]]))]
    /\ UNCHANGED <<runner, run_connections, websockets, sent, given,
                   generated, code, filename, wall_clock, analyses,
                   service_runs, workflow_pc>>

\* What the agent leaves: the state and the status of its second message.
AgentOutcomes(state, agent, now) ==
    {<<IF agent = "code_analysis"
       THEN code_analysis_agent(state, now)
       ELSE agent_succeeds(state, agent), "success">>}
    \cup (IF agent \in FallibleAgents
          THEN {<<agent_fails(state, agent), "error">>}
          ELSE {})

\* Lines 1158-1162: the awaited broadcast has returned, the agent is called
\* and process_workflow sleeps.  The agent is a plain function: it hands
\* its running message and then its success or error message to create_task
\* and returns before either coroutine has run.
process_workflow_agent(r) ==
    /\ r \in DOMAIN workflow_pc
    /\ workflow_pc[r] \in 1..Len(AGENTS)
    /\ LET agent == AGENTS[workflow_pc[r]] IN
       /\ Announced(r, agent)
       /\ AwaitedDone(r)
       /\ \E outcome \in AgentOutcomes(service_runs[r], agent, wall_clock) :
              LET running == Message("agent_update", agent, "running")
                  ended   == Message("agent_update", agent, outcome[2]) IN
              /\ service_runs' = [service_runs EXCEPT ![r] = outcome[1]]
              /\ coroutines' = coroutines
                                \o <<Coroutine(r, running, FALSE),
                                     Coroutine(r, ended, FALSE)>>
              /\ broadcasts' = [broadcasts EXCEPT ![r] =
                                   @ \o <<running, ended>>]
    /\ workflow_pc' = [workflow_pc EXCEPT ![r] = @ + 1]
    /\ UNCHANGED <<runner, run_connections, websockets, sent, given,
                   generated, code, filename, wall_clock, analyses>>

\* The texts the analyzer is given.
SeqsUpTo(S, n) == UNION {[1..k -> S] : k \in 0..n}

UrlTokens ==
    {Token(c, a) : c \in {"cy.visit", "cy.url.should.eq", "page.goto",
                          "await page.goto", "driver.get", "literal"},
                   a \in {UrlA, UrlB}}
    \cup {Token("cy.visit", Rel), Token("cy.get", Sel)}

UrlTexts == {<<line>> : line \in SeqsUpTo(UrlTokens, MaxUrlCalls)}

StepTokens ==
    {Token("cy.get", Sel), Token(".type", Val1), Token(".type", Val2),
     Token(".should.have.value", Val1), Token(".should.have.value", Val2),
     Token(".should", Blank), Token(".click", Blank),
     Token("cy.url.should.eq", UrlA), Token("cy.visit", UrlA),
     Token("page.goto", UrlB), Token("//", Blank)}

StepLines == SeqsUpTo(StepTokens, MaxLineCalls)

\* One line, alone or after a blank line.
StepTexts == {<<line>> : line \in StepLines}
             \cup {<<Blank, line>> : line \in StepLines}

InitAnalyzer(texts) ==
    /\ InitRunner(FALSE)
    /\ code \in texts
    /\ filename = "test.js"
    /\ wall_clock = 0
    /\ analyses = <<>>
    /\ service_runs = EmptyDict
    /\ workflow_pc = EmptyDict
    /\ broadcasts = EmptyDict
    /\ given = <<>>
    /\ generated = EmptyDict
    /\ SocketsIdle

NextUrls ==
    \/ call_analyze_code
    \/ tick

\* Texts of navigation calls and string literals, analysed at any time.
SpecUrls == InitAnalyzer(UrlTexts) /\ [][NextUrls]_vars

\* Texts of chained calls, analysed.
SpecSteps == InitAnalyzer(StepTexts) /\ [][call_analyze_code]_vars

\* The steps handed to the generators: one of each kind of the step model
\* with its operands, with some of them, and with none; a step of a kind no
\* rule is registered for, and a step without a type.
GivenSteps ==
    {[type |-> "navigation", url |-> UrlA],
     [type |-> "navigation"],
     [type |-> "click", selector |-> Quoted(Sel)],
     [type |-> "click"],
     [type |-> "input", selector |-> Sel, value |-> Val1],
     [type |-> "input", selector |-> Sel],
     [type |-> "input", value |-> Val1],
     [type |-> "assert_url", expected_value |-> UrlB],
     [type |-> "assert_url", selector |-> <<"url">>],
     [type |-> "assert_value", selector |-> Sel, expected_value |-> Val2],
     [type |-> "assert_value", selector |-> Sel, expected_value |-> Blank],
     [type |-> "assert_value"],
     [type |-> "assert_css", selector |-> Sel, css_property |-> <<"color">>,
      expected_value |-> Val1],
     [type |-> "assert_css", selector |-> Sel],
     [type |-> "assertion", selector |-> Sel, assertion_type |-> "be.visible"],
     [type |-> "assertion", selector |-> Sel, assertion_type |-> "have.text",
      expected_value |-> Val1],
     [type |-> "wait"],
     [type |-> "hover", selector |-> Sel],
     [selector |-> Sel]}

\* The analyses handed to the generators.
GivenAnalyses ==
    {[filename |-> name[1], normalized_filename |-> name[2],
      primary_url |-> url, parsed_steps |-> steps] :
        name \in {<<"test.js", "test_js">>, <<"Login.cy.js", "Login_cy_js">>},
        url \in {None, UrlA},
        steps \in SeqsUpTo(GivenSteps, MaxSteps)}

\* The steps handed to the scorer: the kinds the scorer names, two kinds
\* that start with 'assert_', a kind that starts with 'assert' only, an
\* unknown kind and a step without a type.
ScoredSteps ==
    {[type |-> kind] : kind \in {"navigation", "click", "input", "assert_url",
                                 "assert_css", "assertion", "hover"}}
    \cup {[selector |-> Sel]}

InitGenerators ==
    /\ InitRunner(FALSE)
    /\ code = <<>>
    /\ filename = "test.js"
    /\ wall_clock = 0
    /\ analyses = <<>>
    /\ service_runs = EmptyDict
    /\ workflow_pc = EmptyDict
    /\ broadcasts = EmptyDict
    /\ given \in GivenAnalyses
    /\ generated = EmptyDict
    /\ SocketsIdle

GivenToPlaywright == call_generate_playwright_test(given)

GivenToGherkin == call_generate_gherkin_feature(given)

NextGenerators ==
    \/ GivenToPlaywright
    \/ GivenToGherkin

\* An analysis is handed to the two generators, in any order.
SpecGenerators == InitGenerators /\ [][NextGenerators]_vars

InitScores ==
    /\ InitRunner(FALSE)
    /\ code = <<>>
    /\ filename = "test.js"
    /\ wall_clock = 0
    /\ analyses = <<>>
    /\ service_runs = EmptyDict
    /\ workflow_pc = EmptyDict
    /\ broadcasts = EmptyDict
    /\ given \in SeqsUpTo(ScoredSteps, MaxScored)
                 \X SeqsUpTo(ScoredSteps, MaxScored)
    /\ generated = EmptyDict
    /\ SocketsIdle

\* Two lists of steps are scored, apart and joined.
SpecScores == InitScores /\ [][call_calculate_complexity_score]_vars

\* The last analysis is handed to the Gherkin generator.
AnalysisToGherkin ==
    /\ analyses # <<>>
    /\ call_generate_gherkin_feature(analyses[Len(analyses)])

NextFeature ==
    \/ call_analyze_code
    \/ AnalysisToGherkin

\* Texts of navigation calls, and the empty text, analysed and rendered.
SpecFeature == InitAnalyzer(UrlTexts) /\ [][NextFeature]_vars

\* A single request is made.
SoloAnalysis == service_runs = EmptyDict /\ start_analysis("r1")

NextWorkflow ==
    \/ SoloAnalysis
    \/ workflow_stage("r1")
    \/ workflow_complete("r1")
    \/ tick

\* One request and its workflow.
SpecWorkflow == InitAnalyzer(WorkflowTexts) /\ [][NextWorkflow]_vars

\* One request, the first turns of its workflow, and clients that connect
\* to the run and go away again.
NextSockets ==
    \/ SoloAnalysis
    \/ process_workflow_progress("r1")
    \/ process_workflow_agent("r1")
    \/ \E t \in 1..(3 * StagesWatched) : broadcast_to_run_begin(t)
    \/ \E t \in 1..(3 * StagesWatched) : broadcast_to_run_resume(t)
    \/ \E w \in Sockets : websocket_connect(w, "r1")
    \/ \E w \in Sockets : client_leaves(w)
    \/ \E w \in Sockets : websocket_disconnect(w)

SpecSockets ==
    InitAnalyzer({<<<<Token("cy.visit", UrlA)>>>>}) /\ [][NextSockets]_vars

----------------------------------------------------------------------------
\* The registry entry of a run's queue is deleted by a subscription only once
\* the run has left active_runs, so the puts of lines 88, 99, 112 and 208
\* find the queue they tested for.
QueueKeptWhileActive ==
    \A r \in RunIds : r \in DOMAIN active_runs => r \in DOMAIN event_queues

----------------------------------------------------------------------------
\* Observations on runs and subscriptions.

Terminal == {"completed", "failed"}

\* Events of a run as opposed to the events a subscription makes up.
IsRunEvent(e) == e.type \notin {"connected", "heartbeat", "error"}

RunEventsOf(s) == SelectSeq(subs[s].delivered, IsRunEvent)

\* The subscription found a queue when it was opened.
Subscribed(s) == subs[s].q # NoObj

\* The subscription is suspended at a yield of its loop.
StillOpen(s) == subs[s].pc \in {"loop", "yielded_heartbeat"}

\* The time the subscription was opened (clocked behaviours).
OpenedAt(s) == subs[s].delivered[1].seq

Delivered(s, e) == \E i \in 1..Len(subs[s].delivered) : subs[s].delivered[i] = e

OnQueue(q, e) == \E i \in 1..Len(queue_objs[q]) : queue_objs[q][i] = e

\* The running and outcome events of the eight stages, in publication order.
IsStageEvent(e) == e.type = "agent_update" /\ e.agent \in AgentKeys

StageEvents(r) == SelectSeq(published[r], IsStageEvent)

StagesStarted(r) ==
    {published[r][i].agent : i \in {j \in 1..Len(published[r]) :
        IsStageEvent(published[r][j]) /\ published[r][j].state = "running"}}

----------------------------------------------------------------------------
\* C1: the status of a run only moves queued -> running -> completed or
\* running -> failed, and a completed or failed run keeps its status, whatever
\* start_run, the workers, the failure handler and cancel_run do.
StatusStep(a, b) ==
    \/ a = b
    \/ <<a, b>> \in {<<"unallocated", "queued">>, <<"queued", "running">>,
                     <<"running", "completed">>, <<"running", "failed">>}

C1_StatusMachine ==
    [][\A o \in ObjIds : StatusStep(run_objs[o].status, run_objs'[o].status)]_vars

C1_Witness ==
    /\ run_objs[<<"r1", 1>>].status = "completed"
    /\ run_objs[<<"r2", 1>>].status = "failed"
    /\ cancel_result = "False"

\* C2: a second start_run with a registered run id is rejected: it leaves the
\* run record, the queue and the set of workers as they were.
C2_SecondStartRejected ==
    [][\A r \in RunIds :
          (Registered(r) /\ start_calls'[r] # start_calls[r])
          => /\ active_runs' = active_runs
             /\ completed_runs' = completed_runs
             /\ event_queues' = event_queues
             /\ run_objs' = run_objs
             /\ queue_objs' = queue_objs
             /\ threads' = threads]_vars

\* C3: when one stage raises, every remaining stage is still executed and the
\* run then reaches a terminal status.
C3_FailedStageDoesNotStopPipeline ==
    \A t \in ObjIds :
        (threads[t].pc = "done" /\ threads[t].err \in AgentKeys)
        => /\ AgentKeys \subseteq StagesStarted(threads[t].run)
           /\ run_objs[t].status \in Terminal

\* C4: an event published while two subscriptions are open on the run is
\* delivered to both: once one of them has delivered it, the other, as long as
\* it is open, has delivered it too or still has it on its queue.
C4_EveryEventToBoth ==
    \A s1 \in Subs, s2 \in Subs :
        (/\ s1 # s2
         /\ Subscribed(s1) /\ Subscribed(s2)
         /\ subs[s1].run = subs[s2].run
         /\ StillOpen(s2))
        => \A i \in 2..Len(subs[s1].delivered) :
              LET e == subs[s1].delivered[i] IN
              (IsRunEvent(e) /\ e.seq > OpenedAt(s1) /\ e.seq > OpenedAt(s2))
              => Delivered(s2, e) \/ OnQueue(subs[s2].q, e)

\* C5: a subscription opened on an existing queue does not end without
\* having delivered stream_end, and stream_end is the last event it delivers.
C5_EndsWithStreamEnd ==
    \A s \in Subs :
        Subscribed(s)
        => LET d == subs[s].delivered IN
           /\ subs[s].pc = "ended" => d[Len(d)].type = "stream_end"
           /\ \A i \in 1..(Len(d) - 1) : d[i].type # "stream_end"

C7_DeliveredInOrder ==
    \A s \in Subs :
        \A i \in 1..Len(RunEventsOf(s)), j \in 1..Len(RunEventsOf(s)) :
            i < j => RunEventsOf(s)[i].seq < RunEventsOf(s)[j].seq

C7_Witness ==
    /\ Len(RunEventsOf("s1")) = 2
    /\ RunEventsOf("s1")[1].seq = 1
    /\ RunEventsOf("s1")[2].seq = 3
    /\ Len(RunEventsOf("s2")) = 1

\* C8: the stages run in the order of AGENTS; the running event of a stage is
\* published before its outcome, and its outcome before the running event of
\* the next stage.
C8_StageOrder ==
    \A r \in RunIds :
        \A j \in 1..Len(StageEvents(r)) :
            /\ StageEvents(r)[j].agent = AGENTS[(j + 1) \div 2]
            /\ StageEvents(r)[j].state \in
                   (IF j % 2 = 1 THEN {"running"} ELSE {"success", "error"})

C8_Witness ==
    /\ Len(StageEvents("r1")) = 2 * Len(AGENTS)
    /\ run_objs[<<"r1", 1>>].status = "completed"

\* C9: a subscription to a run id without a queue yields one error event and
\* ends; it creates neither a queue nor a run record.
C9_UnknownRunOneError ==
    [][\A s \in Subs :
          LET a == subs[s]
              b == subs'[s]
          IN
          /\ (a.pc = "closed" /\ b.pc # "closed"
                /\ b.run \notin DOMAIN event_queues)
             => /\ b.delivered = <<NotFound>>
                /\ b.pc = "yielded_error"
                /\ UNCHANGED <<event_queues, queue_objs, active_runs,
                               completed_runs, run_objs>>
          /\ a.pc = "yielded_error"
             => /\ b.delivered = a.delivered
                /\ b.pc \in {"yielded_error", "ended", "disconnected"}
          /\ (a.pc = "ended" /\ ~Subscribed(s)) => b = a]_vars

C9_Witness ==
    /\ subs["s1"].pc = "ended"
    /\ subs["s1"].delivered = <<NotFound>>
    /\ subs["s1"].run = "r2"
    /\ DOMAIN event_queues = {"r1"}

\* C10: the first event of a subscription opened on an existing queue is a
\* connected event that carries the run id; no later one is.
C10_ConnectedFirst ==
    \A s \in Subs :
        Subscribed(s)
        => LET d == subs[s].delivered IN
           /\ d[1].type = "connected"
           /\ d[1].runId = subs[s].run
           /\ \A i \in 2..Len(d) : d[i].type # "connected"

C10_Witness ==
    /\ Subscribed("s1")
    /\ Len(RunEventsOf("s1")) >= 2

\* C11: cancel_run on an active run returns true, sets the run's status to
\* failed and records the cancellation in errors; on an id that was never
\* started it returns false.
C11_CancelActiveReturnsTrue ==
    [][\A r \in RunIds :
          /\ (r \in DOMAIN active_runs /\ cancel_run(r))
             => /\ cancel_result' = "True"
                /\ run_objs'[active_runs[r]].status = "failed"
                /\ "Run cancelled by user"
                       \in Range(run_objs'[active_runs[r]].errors)
          /\ (~Registered(r) /\ cancel_run(r))
             => cancel_result' = "False"]_vars

\* C12: once cancel_run was requested for a run it found running, no stage
\* that had not started is started.
C12_NoStageAfterCancel ==
    [][\A r \in RunIds :
          cancel_seen[r] = "running"
          => StagesStarted(r)' \subseteq StagesStarted(r)]_vars

\* C13: a run whose worker has ended has had exactly one stream_end
\* published, and after every other event of the run.
C13_OneStreamEndLast ==
    \A t \in ObjIds :
        threads[t].pc = "done"
        => LET p == published[threads[t].run] IN
           /\ Len(p) > 0
           /\ p[Len(p)].type = "stream_end"
           /\ \A i \in 1..(Len(p) - 1) : p[i].type # "stream_end"

\* C14: what get_run returned does not change while the reader holds it, and
\* get_run returns not-found only for ids that were never started.
C14_GetRunSnapshot ==
    [][/\ (got.ref # NoObj /\ got' = got)
          => run_objs'[got.ref] = run_objs[got.ref]
       /\ (got' # got /\ got'.ref = NoObj)
          => start_calls[got'.run] = 0]_vars

\* C15: a run that failed in stage k ends as failed, with the failure in
\* errors and with the artifact of every stage before k.
StageIndex(a) == CHOOSE k \in 1..Len(AGENTS) : AGENTS[k] = a

C15_FailureKeepsArtifacts ==
    \A t \in ObjIds :
        (threads[t].pc = "done" /\ threads[t].err \in AgentKeys)
        => LET r   == threads[t].run
               run == run_objs[completed_runs[r]]
           IN
           /\ get_run_status(r) = "failed"
           /\ threads[t].err \in Range(run.errors)
           /\ \A j \in 1..(StageIndex(threads[t].err) - 1) :
                  AGENTS[j] \in run.artifacts

C15_Witness ==
    /\ threads[<<"r1", 1>>].pc = "done"
    /\ threads[<<"r1", 1>>].err = AGENTS[4]
    /\ {AGENTS[1], AGENTS[2], AGENTS[3]}
           \subseteq run_objs[completed_runs["r1"]].artifacts

\* C16: two analyze_code calls on the same text and file name return
\* results equal in every field.
C16_AnalyzeDeterministic ==
    \A i \in 1..Len(analyses), j \in 1..Len(analyses) :
        analyses[i] = analyses[j]

\* C17: after every stage of the workflow the analysis in the run state is
\* equal, field by field, to the one the analyzer created for the run.
C17_AnalysisNeverMutated ==
    \A r \in DOMAIN service_runs :
        service_runs[r].ast_analysis = analyses[1]

\* C18: for each line that is neither blank nor a comment the parser emits
\* the steps of the first rule that matches, in the order chain, URL
\* assertion, navigation, click, plain type (without '.should('), and of no
\* other rule: input and assert_value for the chain, one step for another
\* rule, none if no rule matches.
KindsAt(steps, line_num) ==
    LET at == SelectSeq(steps, LAMBDA st : st.line_number = line_num)
    IN  [i \in 1..Len(at) |-> at[i].type]

FirstRuleKinds(line) ==
    IF Skipped(line) THEN <<>>
    ELSE IF ChainStarts(line) # {} THEN <<"input", "assert_value">>
    ELSE IF UrlAsserts(line) # {} THEN <<"assert_url">>
    ELSE IF Navigations(line) # {} THEN <<"navigation">>
    ELSE IF GetsBefore(line, ".click") # {} THEN <<"click">>
    ELSE IF GetsBefore(line, ".type") # {} /\ ~HasShould(line)
         THEN <<"input">>
    ELSE <<>>

C18_FirstRuleWins ==
    \A k \in 1..Len(analyses) :
        LET steps == analyses[k].parsed_steps IN
        /\ \A n \in 1..Len(code) :
               KindsAt(steps, n) = FirstRuleKinds(code[n])
        /\ \A i \in 1..Len(steps) : steps[i].line_number \in 1..Len(code)
        /\ \A i \in 1..Len(steps), j \in 1..Len(steps) :
               i < j => steps[i].line_number <= steps[j].line_number

C18_Witness ==
    /\ code = <<Blank, <<Token("cy.get", Sel), Token(".type", Val1),
                         Token(".should.have.value", Val2)>>>>
    /\ Len(analyses) = 1
    /\ Len(analyses[1].parsed_steps) = 2
    /\ analyses[1].parsed_steps[2].expected_value = Val2

\* C19: urls lists the URLs in the order of their first occurrence in the
\* text; primary_url is urls[0], and absent exactly when urls is empty.
FirstOccurrence(url, text) ==
    Min({p \in 1..Len(text) : text[p].arg = url})

C19_UrlsInTextOrder ==
    \A k \in 1..Len(analyses) :
        LET urls == analyses[k].real_urls
            text == Flatten(code)
        IN
        /\ \A i \in 1..Len(urls), j \in 1..Len(urls) :
               i < j => FirstOccurrence(urls[i], text)
                            < FirstOccurrence(urls[j], text)
        /\ urls # <<>> => analyses[k].primary_url = urls[1]
        /\ urls = <<>> <=> analyses[k].primary_url = None

\* C20: a URL that occurs in the text, however often and by however many
\* patterns it is matched, is in urls exactly once.
Occurrences(url, seq) == Cardinality({i \in 1..Len(seq) : seq[i] = url})

UrlsIn(text) == {text[p].arg : p \in {q \in 1..Len(text) :
                                          startswith_http(text[q].arg)}}

C20_EachUrlOnce ==
    \A k \in 1..Len(analyses) :
        /\ \A url \in UrlsIn(Flatten(code)) :
               Occurrences(url, analyses[k].real_urls) = 1
        /\ \A i \in 1..Len(analyses[k].real_urls) :
               Occurrences(analyses[k].real_urls[i], analyses[k].real_urls) = 1

\* The part of C20 that does not depend on which occurrences are extracted:
\* urls never contains the same URL twice.
UrlsNeverTwice ==
    \A k \in 1..Len(analyses) :
        \A i \in 1..Len(analyses[k].real_urls) :
            Occurrences(analyses[k].real_urls[i], analyses[k].real_urls) = 1

\* The steps a rule of playwright_mappings is registered for, in order.
KnownSteps(parsed_steps) ==
    SelectSeq(parsed_steps,
              LAMBDA step : Get(step, "type", "unknown") \in playwright_mappings)

\* C21: the body of the generated test has one entry for every step whose
\* kind has a registered rule, in step order, and none for the other steps;
\* a navigation without url is the comment 'Navigation step - URL not found',
\* an input with a selector and no value fills the empty string, a value
\* assertion with a selector and no expected value checks visibility; no
\* entry is empty.
C21_PlaywrightEntryPerStep ==
    "playwright_code" \in DOMAIN generated =>
        LET test  == generated.playwright_code.test
            known == KnownSteps(given.parsed_steps)
        IN  /\ Len(test) = Len(known)
            /\ \A i \in 1..Len(known) :
                  LET step == known[i]
                      line == test[i].operands[1]
                  IN  /\ test[i].template = "    {}\n"
                      /\ line = MappedStep(step.type, step)
                      /\ line.template # ""
                      /\ (step.type = "navigation"
                          /\ Get(step, "url", Blank) = Blank)
                         => line = Rendered(
                                "  //Navigation step - URL not found", <<>>)
                      /\ (step.type = "navigation"
                          /\ Get(step, "url", Blank) # Blank)
                         => line.operands = <<step.url>>
                      /\ (step.type = "input"
                          /\ Get(step, "selector", Blank) # Blank
                          /\ Get(step, "value", Blank) = Blank)
                         => line = Rendered(
                                "  await page.locator('{cleaned_selector}').fill('');",
                                <<step.selector>>)
                      /\ (step.type = "input"
                          /\ Get(step, "selector", Blank) = Blank)
                         => line = Rendered(
                                "  //Input step - selector not found", <<>>)
                      /\ (step.type = "assert_value"
                          /\ Get(step, "selector", Blank) # Blank
                          /\ Get(step, "expected_value", Blank) = Blank)
                         => line = Rendered(
                                "  await expect(page.locator('{cleaned_selector}')).toBeVisible();",
                                <<step.selector>>)

\* A step of unknown kind and a navigation without url have been rendered.
C21_Witness ==
    /\ "playwright_code" \in DOMAIN generated
    /\ Len(given.parsed_steps) = 2
    /\ Get(given.parsed_steps[1], "type", "unknown") = "hover"
    /\ given.parsed_steps[2] = [type |-> "navigation"]
    /\ Len(generated.playwright_code.test) = 1

\* C22: for an analysis whose steps are all of the kinds of the step model,
\* the scenario has exactly one line per step, and two steps of the same kind
\* get the same sentence.
C22_GherkinLinePerStep ==
    ("gherkin_feature" \in DOMAIN generated
     /\ \A i \in 1..Len(given.parsed_steps) :
            Get(given.parsed_steps[i], "type", "") \in playwright_mappings)
    => LET scenario == generated.gherkin_feature.scenario
           steps    == given.parsed_steps
       IN  /\ Len(scenario) = Len(steps)
           /\ \A i, j \in 1..Len(steps) :
                  steps[i].type = steps[j].type
                  => scenario[i].template = scenario[j].template

\* The weight the score gives a step of each kind: 1 for a navigation, 2
\* for a click, 3 for an input, 2 for a kind whose name starts with
\* 'assert_', 0 for any other.
WeightTable(step) ==
    LET kind == Get(step, "type", "") IN
    CASE kind = "navigation" -> 1
      [] kind = "click" -> 2
      [] kind = "input" -> 3
      [] kind \in {"assert_url", "assert_css"} -> 2
      [] OTHER -> 0

\* C23: the score of two step lists joined is the sum of their scores, and
\* the score of a list of one step is the weight of its kind.
C23_ScoreAdditive ==
    DOMAIN generated # {} =>
        /\ generated.AB = generated.A + generated.B
        /\ Len(given[1]) = 1 => generated.A = WeightTable(given[1][1])
        /\ given[1] = <<>> => generated.A = 0

\* Two lists of two steps, with both kinds of assertion names, were scored.
C23_Witness ==
    /\ DOMAIN generated # {}
    /\ given[1] = <<[type |-> "assert_css"], [type |-> "assertion"]>>
    /\ given[2] = <<[type |-> "input"], [type |-> "assert_css"]>>
    /\ generated.AB = 7

\* C24: the analysis of the empty text has no URL, no step, no primary URL
\* and score 0, and the feature generated from it has its header, no
\* Background and a Scenario without lines.
C24_EmptyTextEmptyResult ==
    code = <<Blank>> =>
        /\ \A i \in 1..Len(analyses) :
              /\ analyses[i].real_urls = <<>>
              /\ analyses[i].parsed_steps = <<>>
              /\ analyses[i].primary_url = None
              /\ analyses[i].complexity_score = 0
        /\ "gherkin_feature" \in DOMAIN generated
           => /\ generated.gherkin_feature.feature[1] = filename
              /\ generated.gherkin_feature.background = None
              /\ generated.gherkin_feature.scenario = <<>>

\* The empty text was analysed and its analysis rendered.
C24_Witness ==
    /\ code = <<Blank>>
    /\ analyses # <<>>
    /\ "gherkin_feature" \in DOMAIN generated

\* C25: in every Run object, an agent that is running has only successful
\* agents before it and only idle agents after it, a successful agent has
\* only successful agents before it, and no agent is in any other state; so
\* at most one agent is running.
C25_OneAgentRunning ==
    \A o \in ObjIds :
        run_objs[o].status # "unallocated" =>
            LET state(i) == run_objs[o].agents[AGENTS[i]] IN
            \A i \in 1..Len(AGENTS) :
                /\ state(i) \in {"idle", "running", "success"}
                /\ state(i) = "running" =>
                       /\ \A j \in 1..(i - 1) : state(j) = "success"
                       /\ \A j \in (i + 1)..Len(AGENTS) : state(j) = "idle"
                /\ state(i) = "success" =>
                       \A j \in 1..(i - 1) : state(j) = "success"

\* The third agent of a run is running.
C25_Witness ==
    \E o \in ObjIds :
        /\ run_objs[o].status = "running"
        /\ run_objs[o].agents[AGENTS[3]] = "running"
        /\ run_objs[o].agents[AGENTS[2]] = "success"
        /\ run_objs[o].agents[AGENTS[4]] = "idle"

\* The positions of the events of a type in the log of a run.
EventsOfType(r, type) ==
    {i \in 1..Len(published[r]) : published[r][i].type = type}

\* C26: the step that handles an exception raised by the stage sequence
\* leaves the run failed and its log with exactly one run_error, which
\* carries the message of the exception, and with no stream_end yet; and at
\* all times the log of a run has at most one run_error, not both a
\* run_complete and a run_error, and no stream_end before a run_error.
C26_OneRunError ==
    [][/\ \A t \in ObjIds :
              execute_except(t)
              => LET r == threads[t].run IN
                 /\ r \in DOMAIN active_runs
                 /\ run_objs'[active_runs[r]].status = "failed"
                 /\ Cardinality(EventsOfType(r, "run_error")') = 1
                 /\ \A i \in EventsOfType(r, "run_error")' :
                        published'[r][i].error = threads[t].err
                 /\ EventsOfType(r, "stream_end")' = {}
       /\ \A r \in RunIds :
              /\ Cardinality(EventsOfType(r, "run_error")') <= 1
              /\ EventsOfType(r, "run_error")' = {}
                 \/ EventsOfType(r, "run_complete")' = {}
              /\ \A i \in EventsOfType(r, "run_error")',
                    j \in EventsOfType(r, "stream_end")' : i < j]_vars

\* A worker whose stage sequence raised has ended: the run is failed and its
\* log ends with run_error and stream_end.
C26_Witness ==
    \E t \in ObjIds :
        LET p == published[threads[t].run] IN
        /\ threads[t].pc = "done"
        /\ threads[t].err \in AgentKeys
        /\ run_objs[completed_runs[threads[t].run]].status = "failed"
        /\ Len(p) > 1
        /\ p[Len(p) - 1].type = "run_error"
        /\ p[Len(p)].type = "stream_end"

\* C27: a run whose worker thread was started is eventually out of
\* active_runs and in completed_runs with status completed or failed,
\* whatever the subscriptions do.
C27_RunEnds ==
    \A t \in ObjIds :
        (threads[t].pc # "unborn")
        ~> (/\ t[1] \notin DOMAIN active_runs
            /\ t[1] \in DOMAIN completed_runs
            /\ run_objs[completed_runs[t[1]]].status \in Terminal)

\* A run has completed with all its events left on the queue of a
\* subscription that was closed by its client.
C27_Witness ==
    \E t \in ObjIds :
        /\ threads[t].pc = "done"
        /\ t[1] \in DOMAIN completed_runs
        /\ run_objs[completed_runs[t[1]]].status = "completed"
        /\ subs["s1"].pc = "disconnected"
        /\ Len(queue_objs[subs["s1"].q]) > Len(AGENTS)

\* C28: a subscription that found a queue, once its run has status
\* completed or failed, eventually ends (or was closed by its client).
C28_SubscriptionEnds ==
    \A s \in Subs :
        (Subscribed(s) /\ get_run_status(subs[s].run) \in Terminal)
        ~> (subs[s].pc \in {"ended", "disconnected"})

\* A subscription has ended without stream_end, which the other
\* subscription of the run was delivered.
C28_Witness ==
    /\ Subscribed("s2")
    /\ subs["s2"].pc = "ended"
    /\ \A i \in 1..Len(subs["s2"].delivered) :
           subs["s2"].delivered[i].type # "stream_end"
    /\ \E i \in 1..Len(subs["s1"].delivered) :
           subs["s1"].delivered[i].type = "stream_end"

\* The subscription has yielded the stream_end of its run.
DeliveredStreamEnd(s) ==
    \E i \in 1..Len(subs[s].delivered) : subs[s].delivered[i].type = "stream_end"

\* C29: the queue of a run whose worker was started is in event_queues as
\* long as no subscription has been delivered the run's stream_end, and it
\* is not in event_queues once a subscription that was delivered stream_end
\* is over.
C29_QueueUntilStreamEnd ==
    \A t \in ObjIds :
        threads[t].pc # "unborn" =>
            /\ (\A s \in Subs : subs[s].run = t[1] => ~DeliveredStreamEnd(s))
               => t[1] \in DOMAIN event_queues
            /\ (\E s \in Subs : /\ subs[s].run = t[1]
                                /\ DeliveredStreamEnd(s)
                                /\ subs[s].pc \in {"ended", "disconnected"})
               => t[1] \notin DOMAIN event_queues

\* C30: a Run object whose status is completed has its eight agents in
\* state success, an artifact of each of them, a coverage and no error; and
\* the log of a run has a run_complete only if the status of its Run object
\* is completed.
C30_CompletedRunIsWhole ==
    \A o \in ObjIds :
        /\ run_objs[o].status = "completed"
           => /\ \A k \in AgentKeys : run_objs[o].agents[k] = "success"
              /\ AgentKeys \subseteq run_objs[o].artifacts
              /\ run_objs[o].coverage # "none"
              /\ run_objs[o].errors = <<>>
        /\ (start_calls[o[1]] = o[2]
            /\ EventsOfType(o[1], "run_complete") # {})
           => run_objs[o].status = "completed"

\* A run has completed and its run_complete is in the log.
C30_Witness ==
    \E o \in ObjIds :
        /\ run_objs[o].status = "completed"
        /\ EventsOfType(o[1], "run_complete") # {}
        /\ threads[o].pc = "done"

\* The agents whose running message was given to broadcast_to_run.
AgentsRun(r) ==
    {broadcasts[r][i].agent :
        i \in {j \in 1..Len(broadcasts[r]) :
                  /\ broadcasts[r][j].type = "agent_update"
                  /\ broadcasts[r][j].status = "running"}}

\* C31: a turn of the workflow loop whose agent reports an error appends
\* exactly one message to errors and leaves current_step, the outputs and
\* the analysis as they were, and the loop goes on to the next agent; when
\* the workflow_complete message is sent every agent has run, and the
\* message carries the errors of the state.
C31_StageFailureIsData ==
    [][\A r \in RunIds :
          /\ (workflow_stage(r)
              /\ broadcasts'[r][Len(broadcasts'[r])].status = "error")
             => /\ Len(service_runs'[r].errors)
                       = Len(service_runs[r].errors) + 1
                /\ SubSeq(service_runs'[r].errors, 1,
                          Len(service_runs[r].errors)) = service_runs[r].errors
                /\ service_runs'[r].current_step = service_runs[r].current_step
                /\ service_runs'[r].outputs = service_runs[r].outputs
                /\ service_runs'[r].ast_analysis = service_runs[r].ast_analysis
                /\ workflow_pc'[r] = workflow_pc[r] + 1
          /\ workflow_complete(r)
             => /\ AgentsRun(r) = AgentKeys
                /\ broadcasts'[r][Len(broadcasts'[r])].type = "workflow_complete"
                /\ broadcasts'[r][Len(broadcasts'[r])].errors
                       = service_runs[r].errors]_vars

\* The workflow has ended after its third agent failed and its last agent
\* succeeded.
C31_Witness ==
    /\ "r1" \in DOMAIN workflow_pc
    /\ workflow_pc["r1"] = Len(AGENTS) + 2
    /\ service_runs["r1"].errors = <<"gherkin">>
    /\ service_runs["r1"].current_step = "completed"
    /\ broadcasts["r1"][Len(broadcasts["r1"])].errors = <<"gherkin">>

\* C32: the Run object and the queue of a run change only in a step of the
\* worker thread of that run or in the start_run call that makes them; such
\* a step leaves the Run objects, the queues and the logs of the other runs
\* as they were; and every event on the queue of a run is the event at that
\* position in the log of the events the run published.
C32_RunsAreIndependent ==
    [][\A o \in ObjIds :
          /\ (run_objs'[o] # run_objs[o] \/ queue_objs'[o] # queue_objs[o])
             => /\ threads'[o] # threads[o]
                   \/ (start_calls'[o[1]] = o[2]
                       /\ start_calls[o[1]] = o[2] - 1)
                /\ \A other \in ObjIds :
                       other[1] # o[1]
                       => /\ run_objs'[other] = run_objs[other]
                          /\ queue_objs'[other] = queue_objs[other]
                          /\ published'[other[1]] = published[other[1]]
          /\ \A i \in 1..Len(queue_objs'[o]) :
                LET e == queue_objs'[o][i] IN
                /\ e.seq \in 1..Len(published'[o[1]])
                /\ published'[o[1]][e.seq] = e
                /\ e.type = "run_complete" => e.runId = o[1]]_vars

\* Two runs are under way, each with events on its queue.
C32_Witness ==
    /\ threads[<<"r1", 1>>].pc = "stage_body"
    /\ threads[<<"r2", 1>>].pc = "stage_body"
    /\ Len(queue_objs[<<"r1", 1>>]) > 2
    /\ Len(queue_objs[<<"r2", 1>>]) > 1

\* C33: no agent_update event in the log of a run carries an artifact.
C33_NoArtifactInProgress ==
    \A r \in RunIds :
        \A i \in 1..Len(published[r]) :
            published[r][i].type = "agent_update" => ~published[r][i].artifact

\* C34: a URL that the text has as a string literal only, in no call of a
\* framework, is in urls.
C34_LiteralUrlExtracted ==
    \A k \in 1..Len(analyses) :
        LET text == Flatten(code) IN
        \A p \in 1..Len(text) :
            (/\ text[p].call = "literal"
             /\ startswith_http(text[p].arg)
             /\ \A q \in 1..Len(text) :
                    text[q].arg = text[p].arg => text[q].call = "literal")
            => IsIn(text[p].arg, analyses[k].real_urls)

\* C35: a Run object whose status is completed or failed has no agent in
\* state running.
C35_NoAgentRunningAtEnd ==
    \A o \in ObjIds :
        run_objs[o].status \in Terminal
        => \A k \in AgentKeys : run_objs[o].agents[k] # "running"

\* C38: a subscription opened on a run id that was passed to start_run gets
\* connected as its first event; the 'Run not found' error is yielded only for
\* ids that were never started.
C38_NotFoundOnlyNeverStarted ==
    [][\A s \in Subs, r \in RunIds :
           (event_stream_open(s, r) /\ start_calls[r] > 0)
           => subs'[s].delivered = Append(subs[s].delivered,
                                          At_(Connected(r), Now(r)))]_vars

\* C39: every run held in completed_runs has status completed or failed, and
\* no run id is in active_runs and in completed_runs at once.
C39_CompletedRunsAreOver ==
    /\ \A r \in DOMAIN completed_runs :
           run_objs[completed_runs[r]].status \in Terminal
    /\ (DOMAIN active_runs) \cap (DOMAIN completed_runs) = {}

\* C36: a broadcast that has ended has handed its message to every connection
\* that was registered for the run when it began and is registered and open
\* still, whatever other connections were disconnected meanwhile.
C36_BroadcastReachesAll ==
    \A t \in 1..Len(coroutines) :
        coroutines[t].pc = "done"
        => \A w \in coroutines[t].registered :
               (/\ websockets[w].pc = "open"
                /\ IsIn(w, run_connections[coroutines[t].run]))
               => IsIn(coroutines[t].message, sent[w])

\* C37: on no connection is the success or error agent_update of a stage
\* sent before the running agent_update of that stage.
C37_RunningBeforeSuccess ==
    \A w \in Sockets :
        \A i \in 1..Len(sent[w]) : \A j \in 1..Len(sent[w]) :
            (/\ i < j
             /\ sent[w][i].type = "agent_update"
             /\ sent[w][i].status \in {"success", "error"})
            => sent[w][j] # Message("agent_update", sent[w][i].agent, "running")

====
